---- MODULE Spec2Model ----
(***************************************************************************)
(* Model of the RAG domain of ThemisAI (src/app/domain/rag_domain.py):     *)
(* RagDomain.ask and the pure helpers it is built from, of the hybrid     *)
(* search and the index creation of                                        *)
(* src/app/services/opensearch_service.py, of the generator call of        *)
(* src/app/services/llama_service.py with the processes it starts, and of  *)
(* simultaneous ask executions (src/app/routes/ask.py builds a RagDomain   *)
(* for every request).                                                     *)
(*                                                                         *)
(* Representation.                                                         *)
(*  - A Python str is a sequence of one-character strings.                 *)
(*  - An Optional value is None (the empty tuple) or Some(x) = <<x>>.      *)
(*  - A dict with string keys is a function whose domain is its key set.   *)
(*  - A float score is an integer; chars_per_token is a fixed-point number *)
(*    in units of 1e-6 (CptScale units make 1.0).                          *)
(*  - sha256 of the normalized text is modelled as the normalized text     *)
(*    itself (an injective digest).                                        *)
(*  - A prompt is the record of the parts the template concatenates.       *)
(*  - A fused (RRF) score is an exact fraction [n, d]; the order in which  *)
(*    a Python set is iterated is a nondeterministic choice.               *)
(*  - A generator process is a record of its command line, its state      *)
(*    (running, exited, killed) and its exit code; an exception is a       *)
(*    record of its class and message; time is not measured: a timer that  *)
(*    is armed may fire at any moment.                                     *)
(***************************************************************************)
EXTENDS Integers, Sequences, FiniteSets, TLC

VARIABLES
    settings,        \* RagDomain.settings (RagSettings)
    hasHybrid,       \* hasattr(self.retriever, "search_hybrid_slim")
    pc,              \* position of the ask coroutine
    req,             \* the RagRequest being served
    retrieverCalls,  \* calls made on the retriever port, in order
    generatorCalls,  \* calls made on the generator port, in order
    rawHits,         \* raw_hits (after "or []")
    curated,         \* citations after dedupe and score filter
    answerMaxInt,    \* answer_max_int
    availableCtx,    \* available_ctx_tokens
    packed,          \* citations after _pack_by_token_budget
    budgeted,        \* citations after _truncate_by_char_budget
    prompt,          \* Optional prompt handed to the generator
    response,        \* Optional RagResponse returned by ask
    failure,         \* Optional exception that left ask
    retrieverReply,  \* Optional outcome of the retriever call
    generatorReply,  \* Optional outcome of the generator call
    fnName,          \* pure-function harness: function applied
    fnArgs,          \* pure-function harness: its arguments
    fnOut,           \* pure-function harness: its result
    hybPc,           \* position of search_hybrid_slim
    hybArgs,         \* its arguments (query, top_k)
    searchCalls,     \* sub-searches it has started, in order
    knnHits,         \* knn_hits
    bm25Hits,        \* bm25_hits
    idOrder,         \* the order in which the set "ids" was iterated
    hybOut,          \* Optional list returned by search_hybrid_slim
    hybFailure,      \* Optional exception that left search_hybrid_slim
    genPc,           \* position of LlamaService.generate_response_async
    genArgs,         \* its caller, its timeout and self._prefer_positional
    procs,           \* generator processes the call has started, in order
    genOut,          \* Optional outcome of generate_response_async
    askOut,          \* Optional outcome of the ask that made the call
    tasks,           \* concurrent asks: what each was given and what it returned
    frames,          \* concurrent asks: the local variables of each coroutine
    indexExists,     \* OpenSearch: whether the index exists in the cluster
    createRequests,  \* OpenSearch: the indices.create requests received, in order
    ensure           \* the ensure_index call of each OpenSearchService

vars == <<settings, hasHybrid, pc, req, retrieverCalls, generatorCalls, rawHits,
          curated, answerMaxInt, availableCtx, packed, budgeted, prompt,
          response, failure, retrieverReply, generatorReply, fnName, fnArgs, fnOut,
          hybPc, hybArgs, searchCalls, knnHits, bm25Hits, idOrder, hybOut, hybFailure,
          genPc, genArgs, procs, genOut, askOut, tasks, frames,
          indexExists, createRequests, ensure>>

pipeVars == <<settings, hasHybrid, pc, req, retrieverCalls, generatorCalls, rawHits,
              curated, answerMaxInt, availableCtx, packed, budgeted, prompt,
              response, failure, retrieverReply, generatorReply>>

fnVars == <<fnName, fnArgs, fnOut>>

hybVars == <<hybPc, hybArgs, searchCalls, knnHits, bm25Hits, idOrder, hybOut,
             hybFailure>>

llamaVars == <<genPc, genArgs, procs, genOut, askOut>>

concVars == <<tasks, frames>>

idxVars == <<indexExists, createRequests, ensure>>

svcVars == <<llamaVars, concVars, idxVars>>

-----------------------------------------------------------------------------
(* Python values *)

None == <<>>
Some(x) == <<x>>
IsNone(o) == o = <<>>
Val(o) == o[1]

Max(a, b) == IF a >= b THEN a ELSE b
Min(a, b) == IF a <= b THEN a ELSE b

Rep(c, n) == [i \in 1..n |-> c]

EmptyDict == [k \in {} |-> <<>>]

IsWs(c) == c \in {" ", "\t", "\n"}
IsDigit(c) == c \in {"0", "1", "2", "3", "4", "5", "6", "7", "8", "9"}

UpperCase == <<"A","B","C","D","E","F","G","H","I","J","K","L","M",
               "N","O","P","Q","R","S","T","U","V","W","X","Y","Z">>
LowerCase == <<"a","b","c","d","e","f","g","h","i","j","k","l","m",
               "n","o","p","q","r","s","t","u","v","w","x","y","z">>

LowerChar(c) ==
    IF \E i \in 1..Len(UpperCase) : UpperCase[i] = c
    THEN LowerCase[CHOOSE i \in 1..Len(UpperCase) : UpperCase[i] = c]
    ELSE c

\* str.lower()
Lower(s) == [i \in 1..Len(s) |-> LowerChar(s[i])]

\* str.lstrip(): drop the leading whitespace
LStrip(s) ==
    IF \A i \in 1..Len(s) : IsWs(s[i]) THEN <<>>
    ELSE LET k == CHOOSE i \in 1..Len(s) :
                     ~IsWs(s[i]) /\ \A j \in 1..(i-1) : IsWs(s[j])
         IN SubSeq(s, k, Len(s))

\* str.rstrip(): drop the trailing whitespace
RStrip(s) ==
    IF \A i \in 1..Len(s) : IsWs(s[i]) THEN <<>>
    ELSE LET k == CHOOSE i \in 1..Len(s) :
                     ~IsWs(s[i]) /\ \A j \in (i+1)..Len(s) : IsWs(s[j])
         IN SubSeq(s, 1, k)

\* str.strip()
Strip(s) == RStrip(LStrip(s))

\* _WS_RE.sub(" ", t): every maximal whitespace run becomes one space
\* (computed by halves; a run that spans the cut is joined into one space)
RECURSIVE WsSub(_)
WsSub(s) ==
    IF Len(s) = 0 THEN <<>>
    ELSE IF Len(s) = 1 THEN (IF IsWs(s[1]) THEN <<" ">> ELSE s)
    ELSE LET h == Len(s) \div 2
             l == WsSub(SubSeq(s, 1, h))
             r == WsSub(SubSeq(s, h + 1, Len(s)))
         IN IF IsWs(s[h]) /\ IsWs(s[h + 1]) THEN l \o Tail(r) ELSE l \o r

\* _CITATION_TAG_RE.search(s): "[", \s*, \d+, \s*, "]" somewhere in s
CitationTagSearch(s) ==
    \E i \in 1..Len(s), j \in 1..Len(s) :
        /\ i < j
        /\ s[i] = "["
        /\ s[j] = "]"
        /\ \E a \in (i+1)..(j-1), b \in (i+1)..(j-1) :
              /\ a <= b
              /\ \A k \in (i+1)..(a-1) : IsWs(s[k])
              /\ \A k \in a..b : IsDigit(s[k])
              /\ \A k \in (b+1)..(j-1) : IsWs(s[k])

-----------------------------------------------------------------------------
(* Pure helpers of rag_domain.py *)

Ellipsis == <<".", ".", ".">>

_normalize_text(t) == WsSub(Strip(IF IsNone(t) THEN <<>> ELSE Val(t)))

\* hashlib.sha256(_normalize_text(t)): an injective digest of the normalized text
_hash_text(t) == _normalize_text(Some(t))

RECURSIVE DedupeLoop(_, _, _)
DedupeLoop(citations, seen, out) ==
    IF citations = <<>> THEN out
    ELSE LET c == Head(citations)
             h == _hash_text(c.text)
         IN IF h \in seen
            THEN DedupeLoop(Tail(citations), seen, out)
            ELSE DedupeLoop(Tail(citations), seen \cup {h}, Append(out, c))

\* variant: the last occurrence of a text is kept instead of the first
DedupeKeepLast(citations) ==
    LET keep(i) == \A j \in (i+1)..Len(citations) :
                      _hash_text(citations[j].text) # _hash_text(citations[i].text)
        F[i \in 0..Len(citations)] ==
            IF i = 0 THEN <<>>
            ELSE IF keep(i) THEN Append(F[i-1], citations[i]) ELSE F[i-1]
    IN F[Len(citations)]

_dedupe_citations(citations) == DedupeLoop(citations, {}, <<>>)

\* variant: a score equal to min_score is rejected
ScoreKeepStrict(c, min_score) == ~IsNone(c.score) /\ Val(c.score) > Val(min_score)

ScoreKeep(c, min_score) == ~IsNone(c.score) /\ Val(c.score) >= Val(min_score)

_apply_score_filter(citations, min_score) ==
    IF IsNone(min_score) THEN citations
    ELSE SelectSeq(citations, LAMBDA c : ScoreKeep(c, min_score))

CptScale == 1000000

\* variant: the floor of one token is missing
EstimateTokensNoFloor(s, cpt) == (Len(s) * CptScale) \div Max(1, cpt)

\* max(1, int(len(s) / max(1e-6, cpt))), cpt in units of 1e-6
_estimate_tokens(s, cpt) == Max(1, (Len(s) * CptScale) \div Max(1, cpt))

FormatMargin == 8

\* variant: the budget is tested only after a citation has been added
RECURSIVE PackLoopLateCheck(_, _, _, _, _)
PackLoopLateCheck(citations, acc, used, max_tokens, cpt) ==
    IF citations = <<>> THEN acc
    ELSE LET c == Head(citations)
             need == (Max(1, (Len(c.text) * CptScale) \div Max(1, cpt))) + FormatMargin
         IN IF used + need >= max_tokens
            THEN Append(acc, c)
            ELSE PackLoopLateCheck(Tail(citations), Append(acc, c), used + need,
                                   max_tokens, cpt)

\* variant: a citation that does not fit is passed over and the loop goes on
RECURSIVE PackLoopSkip(_, _, _, _, _)
PackLoopSkip(citations, acc, used, max_tokens, cpt) ==
    IF citations = <<>> THEN acc
    ELSE LET c == Head(citations)
             need == _estimate_tokens(c.text, cpt) + FormatMargin
         IN IF acc # <<>> /\ used + need > max_tokens
            THEN PackLoopSkip(Tail(citations), acc, used, max_tokens, cpt)
            ELSE IF used + need >= max_tokens
                 THEN Append(acc, c)
                 ELSE PackLoopSkip(Tail(citations), Append(acc, c), used + need,
                                   max_tokens, cpt)

RECURSIVE PackLoop(_, _, _, _, _)
PackLoop(citations, acc, used, max_tokens, cpt) ==
    IF citations = <<>> THEN acc
    ELSE LET c == Head(citations)
             need == _estimate_tokens(c.text, cpt) + FormatMargin
         IN IF acc # <<>> /\ used + need > max_tokens
            THEN acc
            ELSE IF used + need >= max_tokens
                 THEN Append(acc, c)
                 ELSE PackLoop(Tail(citations), Append(acc, c), used + need,
                               max_tokens, cpt)

_pack_by_token_budget(citations, max_tokens, cpt) ==
    IF max_tokens <= 0
    THEN (IF citations # <<>> THEN SubSeq(citations, 1, 1) ELSE <<>>)
    ELSE LET acc == PackLoop(citations, <<>>, 0, max_tokens, cpt)
         IN IF acc = <<>> /\ citations # <<>> THEN <<Head(citations)>> ELSE acc

MinClipRoom == 50

\* variant: no room is reserved for the ellipsis
ClipTextNoReserve(txt, remaining) ==
    RStrip(SubSeq(txt, 1, Min(Len(txt), remaining))) \o Ellipsis

ClipText(txt, remaining) ==
    RStrip(SubSeq(txt, 1, Min(Len(txt), remaining - Len(Ellipsis)))) \o Ellipsis

\* variant: a citation that does not fit is passed over and the loop goes on
RECURSIVE TruncLoopNoBreak(_, _, _, _)
TruncLoopNoBreak(citations, out, total, max_chars) ==
    IF citations = <<>> THEN out
    ELSE LET c == Head(citations)
             txt == c.text
         IN IF txt = <<>>
            THEN TruncLoopNoBreak(Tail(citations), out, total, max_chars)
            ELSE IF total + Len(txt) <= max_chars
                 THEN TruncLoopNoBreak(Tail(citations), Append(out, c),
                                       total + Len(txt), max_chars)
                 ELSE LET remaining == max_chars - total
                      IN IF remaining > MinClipRoom
                         THEN Append(out, [c EXCEPT !.text = ClipText(txt, remaining)])
                         ELSE TruncLoopNoBreak(Tail(citations), out, total, max_chars)

RECURSIVE TruncLoop(_, _, _, _)
TruncLoop(citations, out, total, max_chars) ==
    IF citations = <<>> THEN out
    ELSE LET c == Head(citations)
             txt == c.text
         IN IF txt = <<>>
            THEN TruncLoop(Tail(citations), out, total, max_chars)
            ELSE IF total + Len(txt) <= max_chars
                 THEN TruncLoop(Tail(citations), Append(out, c), total + Len(txt),
                                max_chars)
                 ELSE LET remaining == max_chars - total
                      IN IF remaining > MinClipRoom
                         THEN Append(out, [c EXCEPT !.text = ClipText(txt, remaining)])
                         ELSE out

\* max_chars is an Optional int
_truncate_by_char_budget(citations, max_chars) ==
    IF IsNone(max_chars) \/ Val(max_chars) <= 0 THEN citations
    ELSE TruncLoop(citations, <<>>, 0, Val(max_chars))

-----------------------------------------------------------------------------
(* Prompt templates *)

\* first truthy operand of a Python "a or b" chain over Optional strings
Truthy(o) == ~IsNone(o) /\ Val(o) # ""
PyOr(a, b) == IF Truthy(a) THEN a ELSE b

MetaGet(meta, k) == IF k \in DOMAIN meta THEN Some(meta[k]) ELSE None

\* the source chosen for one citation; None when no "Fonte:" line is rendered
FonteOf(c) ==
    IF c.meta = EmptyDict THEN None
    ELSE LET src == PyOr(MetaGet(c.meta, "url"),
                     PyOr(MetaGet(c.meta, "source"),
                      PyOr(MetaGet(c.meta, "id"), c.id)))
         IN IF Truthy(src) THEN src ELSE None

\* one entry per "[i] text" block, with its optional "\nFonte: src" line
_render_context_block(citations) ==
    [i \in 1..Len(citations) |->
        [n |-> i, text |-> citations[i].text, fonte |-> FonteOf(citations[i])]]

\* the base template numbers the texts and renders no source line
BaseContext(citations) ==
    [i \in 1..Len(citations) |->
        [n |-> i, text |-> citations[i].text, fonte |-> None]]

build_prompt_base(question, citations, s) ==
    [template |-> "base", system |-> s.system_prompt_base, question |-> question,
     placeholder |-> (citations = <<>>), ctx |-> BaseContext(citations)]

StrictPrompt(name, question, citations, s) ==
    [template |-> name, system |-> s.system_prompt_strict, question |-> question,
     placeholder |-> (citations = <<>>), ctx |-> _render_context_block(citations)]

build_prompt_audit_bullets(question, citations, s) ==
    StrictPrompt("audit-bullets", question, citations, s)
build_prompt_concise(question, citations, s) ==
    StrictPrompt("concise", question, citations, s)
build_prompt_qa(question, citations, s) ==
    StrictPrompt("qa", question, citations, s)
build_prompt_verdict(question, citations, s) ==
    StrictPrompt("verdict", question, citations, s)
build_prompt_compare(question, citations, s) ==
    StrictPrompt("compare", question, citations, s)
build_prompt_table(question, citations, s) ==
    StrictPrompt("table", question, citations, s)
build_prompt_json(question, citations, s) ==
    StrictPrompt("json", question, citations, s)
build_prompt_procedure(question, citations, s) ==
    StrictPrompt("procedure", question, citations, s)
build_prompt_exec_summary(question, citations, s) ==
    StrictPrompt("exec-summary", question, citations, s)
build_prompt_mitre_card(question, citations, s) ==
    StrictPrompt("mitre-card", question, citations, s)

StyleBase == <<"b","a","s","e">>
StyleAuditBullets == <<"a","u","d","i","t","-","b","u","l","l","e","t","s">>
StyleConcise == <<"c","o","n","c","i","s","e">>
StyleQa == <<"q","a">>
StyleVerdict == <<"v","e","r","d","i","c","t">>
StyleCompare == <<"c","o","m","p","a","r","e">>
StyleTable == <<"t","a","b","l","e">>
StyleJson == <<"j","s","o","n">>
StyleProcedure == <<"p","r","o","c","e","d","u","r","e">>
StyleExecSummary == <<"e","x","e","c","-","s","u","m","m","a","r","y">>
StyleMitreCard == <<"m","i","t","r","e","-","c","a","r","d">>

\* the chain of "if key == ..." of build_prompt; the verdict, procedure and
\* exec-summary branches are commented out in the source
DispatchStyle(key, question, citations, s) ==
    CASE key = StyleBase -> build_prompt_base(question, citations, s)
      [] key = StyleAuditBullets -> build_prompt_audit_bullets(question, citations, s)
      [] key = StyleConcise -> build_prompt_concise(question, citations, s)
      [] key = StyleQa -> build_prompt_qa(question, citations, s)
      [] key = StyleCompare -> build_prompt_compare(question, citations, s)
      [] key = StyleTable -> build_prompt_table(question, citations, s)
      [] key = StyleJson -> build_prompt_json(question, citations, s)
      [] key = StyleMitreCard -> build_prompt_mitre_card(question, citations, s)
      [] OTHER -> build_prompt_base(question, citations, s)

\* variant: the key is also stripped of surrounding whitespace
BuildPromptStripsKey(question, citations, s, style) ==
    DispatchStyle(Lower(Strip(IF IsNone(style) \/ Val(style) = <<>> THEN StyleBase
                              ELSE Val(style))),
                  question, citations, s)

\* style is an Optional str; "style or 'base'" also maps "" to base
build_prompt(question, citations, s, style) ==
    DispatchStyle(Lower(IF IsNone(style) \/ Val(style) = <<>> THEN StyleBase
                        ELSE Val(style)),
                  question, citations, s)

-----------------------------------------------------------------------------
(* RagDomain.ask, piece by piece *)

ModeKnn == <<"k","n","n">>
ModeHybrid == <<"h","y","b","r","i","d">>

\* (req.search_mode or "knn").strip().lower()
SearchMode(r) ==
    Lower(Strip(IF IsNone(r.search_mode) \/ Val(r.search_mode) = <<>>
                THEN ModeKnn ELSE Val(r.search_mode)))

\* variant: the mode alone decides, whatever the retriever provides
RetrieverMethodModeOnly(r, hybridCapable) ==
    IF SearchMode(r) = ModeHybrid
    THEN "search_hybrid_slim" ELSE "search_knn_slim"

\* the retriever method ask calls
RetrieverMethod(r, hybridCapable) ==
    IF SearchMode(r) = ModeHybrid /\ hybridCapable
    THEN "search_hybrid_slim" ELSE "search_knn_slim"

RetrieverCall(r, hybridCapable) ==
    [method |-> RetrieverMethod(r, hybridCapable), query |-> r.question,
     top_k |-> r.top_k]

\* "if h.get('text')": the text is present and not empty
HitHasText(h) == ~IsNone(h.text) /\ Val(h.text) # <<>>

ToCitation(h) ==
    [id |-> h.id, score |-> h.score, text |-> _normalize_text(h.text),
     meta |-> (IF IsNone(h.meta) THEN EmptyDict ELSE Val(h.meta))]

\* the list comprehension that turns raw hits into citations
ToCitations(hits) ==
    LET kept == SelectSeq(hits, HitHasText)
    IN [i \in 1..Len(kept) |-> ToCitation(kept[i])]

\* dedupe (when enabled) and then the score filter
Curate(citations, s) ==
    _apply_score_filter(
        IF s.dedupe THEN _dedupe_citations(citations) ELSE citations,
        s.min_score)

DefaultAnswerMax == 400
AnswerMaxFloor == 64
AnswerMaxCeil == 2000

\* variant: the lower clamp is missing
AnswerMaxIntNoFloor(r) ==
    LET answer_max == IF ~IsNone(r.answer_max_tokens) THEN Val(r.answer_max_tokens)
                      ELSE IF ~IsNone(r.max_tokens) THEN Val(r.max_tokens)
                      ELSE DefaultAnswerMax
    IN Min(answer_max, AnswerMaxCeil)

\* answer_max_int; the request fields are Optional ints, so int() is the identity
AnswerMaxInt(r) ==
    LET answer_max == IF ~IsNone(r.answer_max_tokens) THEN Val(r.answer_max_tokens)
                      ELSE IF ~IsNone(r.max_tokens) THEN Val(r.max_tokens)
                      ELSE DefaultAnswerMax
    IN Max(AnswerMaxFloor, Min(answer_max, AnswerMaxCeil))

CtxFloor == 128

\* available_ctx_tokens
AvailableCtxTokens(r, s, answer_max_int) ==
    LET question_tokens == _estimate_tokens(r.question, s.chars_per_token)
    IN Max(CtxFloor,
           s.ctx_size - answer_max_int - s.reserve_tokens - question_tokens)

\* char_cap
CharCap(r, s) ==
    IF ~IsNone(r.max_context_chars) THEN r.max_context_chars
    ELSE Some(s.max_context_chars)

\* variant: short-circuits only on an empty list
ShortCircuitsOnlyEmpty(citations, s) ==
    Len(citations) = 0 /\ s.short_circuit_on_empty

ShortCircuits(citations, s) ==
    Len(citations) < s.min_citations_to_answer /\ s.short_circuit_on_empty

ErrOpen == <<" ","(","e","r","r","o"," ","d","o"," ","g","e","r","a","d","o","r",":"," ">>
ErrClose == <<")">>

\* variant: the error detail is dropped
GeneratorFailureAnswerNoDetail(s, e) == s.fallback_answer

\* the answer of the except branch
GeneratorFailureAnswer(s, e) == s.fallback_answer \o ErrOpen \o e \o ErrClose

\* "\n\nObservacao: inclua referencias [n] na proxima resposta." (accents dropped)
Reminder ==
    <<"\n","\n","O","b","s","e","r","v","a","c","a","o",":"," ","i","n","c","l","u","a"," ",
      "r","e","f","e","r","e","n","c","i","a","s"," ","[","n","]"," ","n","a"," ",
      "p","r","o","x","i","m","a"," ","r","e","s","p","o","s","t","a",".">>

\* variant: the reminder does not depend on there being citations
GuardAnswerAnyCitations(answer, citations, s) ==
    LET a1 == IF answer = <<>> THEN s.fallback_answer ELSE answer
    IN IF s.ensure_citations_in_output /\ ~CitationTagSearch(a1)
       THEN a1 \o Reminder
       ELSE a1

\* variant: an empty answer is not replaced
GuardAnswerKeepsEmpty(answer, citations, s) ==
    IF s.ensure_citations_in_output /\ citations # <<>> /\ ~CitationTagSearch(answer)
    THEN answer \o Reminder
    ELSE answer

\* the guard rails applied to the answer before it is returned
GuardAnswer(answer, citations, s) ==
    LET a1 == IF answer = <<>> THEN s.fallback_answer ELSE answer
    IN IF s.ensure_citations_in_output /\ citations # <<>> /\ ~CitationTagSearch(a1)
       THEN a1 \o Reminder
       ELSE a1

RagResponse(answer, citations) == [answer |-> answer, citations |-> citations]

-----------------------------------------------------------------------------
(* Inputs *)

MaxHits == 2

TextA == <<"x","x"," "," ","y","y">>
TextB == <<" ","x","x","\n","y","y"," ">>
TextBlank == <<" ","\n">>
TextMid == Rep("m", 51) \o <<" ">> \o Rep("m", 4) \o <<" ">> \o Rep("m", 13)
TextLong == Rep("w", 120)

HitA == [id |-> Some("a"), score |-> Some(3), text |-> Some(TextA),
         meta |-> Some([url |-> "u"])]
HitB == [id |-> Some("b"), score |-> Some(7), text |-> Some(TextB), meta |-> None]
HitNoText == [id |-> Some("c"), score |-> Some(7), text |-> None,
              meta |-> Some(EmptyDict)]
HitBlank == [id |-> None, score |-> Some(5), text |-> Some(TextBlank),
             meta |-> Some(EmptyDict)]
HitMid == [id |-> Some("m"), score |-> None, text |-> Some(TextMid),
           meta |-> Some([source |-> "s"])]
HitLong == [id |-> Some("w"), score |-> Some(5), text |-> Some(TextLong),
            meta |-> Some([id |-> "i"])]

SeqsUpTo(S, n) == UNION {[1..k -> S] : k \in 0..n}

FlowHits == {HitA, HitB, HitNoText, HitBlank, HitMid}
BudgetHits == {HitA, HitMid, HitLong}

\* what a retriever call may return: None or a list of hits
FlowReturns == {None} \cup {Some(l) : l \in SeqsUpTo(FlowHits, MaxHits)}
BudgetReturns == {Some(l) : l \in SeqsUpTo(BudgetHits, MaxHits)}

QuestionShort == <<"X","?">>
QuestionLong == <<"W","h","a","t"," ","i","s"," ","X","?">>

BaseRequest ==
    [question |-> QuestionShort, top_k |-> 3, answer_max_tokens |-> None,
     max_tokens |-> None, style |-> None, search_mode |-> None,
     max_context_chars |-> None]

NoRequest == [BaseRequest EXCEPT !.question = <<>>, !.top_k = 0]

FlowRequests ==
    {[BaseRequest EXCEPT !.search_mode = m, !.max_context_chars = c] :
        m \in {None, Some(<<" ","H","y","b","r","i","d","\n">>)},
        c \in {None, Some(60)}}

BudgetRequests ==
    {[BaseRequest EXCEPT !.question = q, !.answer_max_tokens = a, !.max_tokens = t,
                         !.max_context_chars = c] :
        q \in {QuestionShort, QuestionLong},
        a \in {None, Some(10), Some(100), Some(3000)},
        t \in {None, Some(500)},
        c \in {Some(0), Some(130)}}

Fallback == <<"N","/","A">>

DefaultSettings ==
    [system_prompt_base |-> "system_prompt_base",
     system_prompt_strict |-> "system_prompt_strict",
     min_citations_to_answer |-> 1, min_score |-> None, dedupe |-> TRUE,
     short_circuit_on_empty |-> TRUE, fallback_answer |-> Fallback,
     ensure_citations_in_output |-> FALSE, ctx_size |-> 4096,
     reserve_tokens |-> 64, chars_per_token |-> 4 * CptScale,
     max_context_chars |-> 16000]

FlowSettings ==
    {[DefaultSettings EXCEPT !.min_citations_to_answer = n, !.min_score = ms,
                             !.dedupe = d, !.short_circuit_on_empty = sc,
                             !.ensure_citations_in_output = e] :
        n \in {1, 2}, ms \in {None, Some(5)}, d \in BOOLEAN, sc \in BOOLEAN,
        e \in BOOLEAN}

BudgetSettings ==
    {[DefaultSettings EXCEPT !.ctx_size = cs, !.reserve_tokens = rt,
                             !.chars_per_token = cpt, !.dedupe = d] :
        cs \in {600, 4096}, rt \in {0, 64},
        cpt \in {CptScale \div 2, 4 * CptScale}, d \in BOOLEAN}

GenOutputs ==
    {None,
     Some(<<" ","\n">>),
     Some(<<" ","o","k","\n">>),
     Some(<<"s","e","e"," ","[" ," ","1","2"," ","]",".">>)}

GenErrors == {<<"e","x","i","t"," ","1">>, <<"t","i","m","e","o","u","t">>}

RetrieverErrors == {"ConnectionError"}

-----------------------------------------------------------------------------
(* State machine of one request *)

Returned(v) == Some([kind |-> "return", value |-> v])
Raised(e) == Some([kind |-> "raise", value |-> e])

IdlePipe ==
    /\ pc = "idle"
    /\ req = NoRequest
    /\ retrieverCalls = <<>>
    /\ generatorCalls = <<>>
    /\ rawHits = <<>>
    /\ curated = <<>>
    /\ answerMaxInt = 0
    /\ availableCtx = 0
    /\ packed = <<>>
    /\ budgeted = <<>>
    /\ prompt = None
    /\ response = None
    /\ failure = None
    /\ retrieverReply = None
    /\ generatorReply = None

IdleFn ==
    /\ fnName = "none"
    /\ fnArgs = <<>>
    /\ fnOut = <<>>

IdleHybrid ==
    /\ hybPc = "idle"
    /\ hybArgs = <<>>
    /\ searchCalls = <<>>
    /\ knnHits = <<>>
    /\ bm25Hits = <<>>
    /\ idOrder = <<>>
    /\ hybOut = None
    /\ hybFailure = None

IdleLlama ==
    /\ genPc = "idle"
    /\ genArgs = <<>>
    /\ procs = <<>>
    /\ genOut = None
    /\ askOut = None

NTasks == 2

IdleTask ==
    [pc |-> "idle", req |-> NoRequest, retrieverReply |-> None,
     generatorReply |-> None, response |-> None, failure |-> None,
     overlaps |-> {}]

NoFrame == [citations |-> <<>>, prompt |-> None]

IdleConc ==
    /\ tasks = [i \in 1..NTasks |-> IdleTask]
    /\ frames = [i \in 1..NTasks |-> NoFrame]

NServices == 3
MaxEnsureCalls == 2

NoEnsure == [pc |-> "idle", calls |-> 0, existedAtCall |-> FALSE, failure |-> None]

IdleIndex ==
    /\ indexExists = FALSE
    /\ createRequests = <<>>
    /\ ensure = [i \in 1..NServices |-> NoEnsure]

IdleSvc ==
    /\ IdleLlama
    /\ IdleConc
    /\ IdleIndex

Init ==
    /\ settings \in FlowSettings
    /\ hasHybrid \in BOOLEAN
    /\ IdlePipe
    /\ IdleFn
    /\ IdleHybrid
    /\ IdleSvc

InitBudget ==
    /\ settings \in BudgetSettings
    /\ hasHybrid = TRUE
    /\ IdlePipe
    /\ IdleFn
    /\ IdleHybrid
    /\ IdleSvc

\* ask is entered and calls the retriever
Ask(r) ==
    /\ pc = "idle"
    /\ req' = r
    /\ retrieverCalls' = Append(retrieverCalls, RetrieverCall(r, hasHybrid))
    /\ pc' = "retrieving"
    /\ UNCHANGED <<settings, hasHybrid, generatorCalls, rawHits, curated,
                   answerMaxInt, availableCtx, packed, budgeted, prompt, response,
                   failure, retrieverReply, generatorReply, fnVars, hybVars, svcVars>>

\* variant: a retriever failure is answered with the fallback answer
RetrieverRaisesRecovered(e) ==
    /\ pc = "retrieving"
    /\ retrieverReply' = Raised(e)
    /\ response' = Some(RagResponse(settings.fallback_answer, <<>>))
    /\ pc' = "done"
    /\ UNCHANGED <<settings, hasHybrid, req, retrieverCalls, generatorCalls, rawHits,
                   curated, answerMaxInt, availableCtx, packed, budgeted, prompt,
                   failure, generatorReply, fnVars, hybVars, svcVars>>

\* the retriever raises: nothing in ask catches it
RetrieverRaises(e) ==
    /\ pc = "retrieving"
    /\ retrieverReply' = Raised(e)
    /\ failure' = Some(e)
    /\ pc' = "failed"
    /\ UNCHANGED <<settings, hasHybrid, req, retrieverCalls, generatorCalls, rawHits,
                   curated, answerMaxInt, availableCtx, packed, budgeted, prompt,
                   response, generatorReply, fnVars, hybVars, svcVars>>

\* the retriever returns: curation, budgeting, then either the short-circuit
\* return or the generator call
RetrieverReturns(ret) ==
    /\ pc = "retrieving"
    /\ retrieverReply' = Returned(ret)
    /\ rawHits' = (IF IsNone(ret) THEN <<>> ELSE Val(ret))
    /\ curated' = Curate(ToCitations(rawHits'), settings)
    /\ answerMaxInt' = AnswerMaxInt(req)
    /\ availableCtx' = AvailableCtxTokens(req, settings, answerMaxInt')
    /\ packed' = _pack_by_token_budget(curated', availableCtx', settings.chars_per_token)
    /\ budgeted' = _truncate_by_char_budget(packed', CharCap(req, settings))
    /\ IF ShortCircuits(budgeted', settings)
       THEN /\ response' = Some(RagResponse(settings.fallback_answer, budgeted'))
            /\ pc' = "done"
            /\ UNCHANGED <<prompt, generatorCalls>>
       ELSE /\ prompt' = Some(build_prompt(req.question, budgeted', settings, req.style))
            /\ generatorCalls' =
                  Append(generatorCalls,
                         [prompt |-> Val(prompt'), max_tokens |-> answerMaxInt'])
            /\ pc' = "generating"
            /\ UNCHANGED response
    /\ UNCHANGED <<settings, hasHybrid, req, retrieverCalls, failure, generatorReply,
                   fnVars, hybVars, svcVars>>

\* variant: the response carries the list from before the character truncation
GeneratorReturnsPacked(out) ==
    /\ pc = "generating"
    /\ generatorReply' = Returned(out)
    /\ LET answer == Strip(IF IsNone(out) THEN <<>> ELSE Val(out))
       IN response' = Some(RagResponse(GuardAnswer(answer, packed, settings), packed))
    /\ pc' = "done"
    /\ UNCHANGED <<settings, hasHybrid, req, retrieverCalls, generatorCalls, rawHits,
                   curated, answerMaxInt, availableCtx, packed, budgeted, prompt,
                   failure, retrieverReply, fnVars, hybVars, svcVars>>

\* the generator returns text (or None): strip, guard rails, return
GeneratorReturns(out) ==
    /\ pc = "generating"
    /\ generatorReply' = Returned(out)
    /\ LET answer == Strip(IF IsNone(out) THEN <<>> ELSE Val(out))
       IN response' = Some(RagResponse(GuardAnswer(answer, budgeted, settings),
                                       budgeted))
    /\ pc' = "done"
    /\ UNCHANGED <<settings, hasHybrid, req, retrieverCalls, generatorCalls, rawHits,
                   curated, answerMaxInt, availableCtx, packed, budgeted, prompt,
                   failure, retrieverReply, fnVars, hybVars, svcVars>>

\* variant: the generator's exception is not caught
GeneratorRaisesUncaught(e) ==
    /\ pc = "generating"
    /\ generatorReply' = Raised(e)
    /\ failure' = Some(e)
    /\ pc' = "failed"
    /\ UNCHANGED <<settings, hasHybrid, req, retrieverCalls, generatorCalls, rawHits,
                   curated, answerMaxInt, availableCtx, packed, budgeted, prompt,
                   response, retrieverReply, fnVars, hybVars, svcVars>>

\* the generator raises an Exception (an error, or LlamaService's timeout
\* RuntimeError): caught, guard rails, return
GeneratorRaises(e) ==
    /\ pc = "generating"
    /\ generatorReply' = Raised(e)
    /\ LET answer == GeneratorFailureAnswer(settings, e)
       IN response' = Some(RagResponse(GuardAnswer(answer, budgeted, settings),
                                       budgeted))
    /\ pc' = "done"
    /\ UNCHANGED <<settings, hasHybrid, req, retrieverCalls, generatorCalls, rawHits,
                   curated, answerMaxInt, availableCtx, packed, budgeted, prompt,
                   failure, retrieverReply, fnVars, hybVars, svcVars>>

\* (each guard is repeated in front of its quantifier so that the inputs are
\* enumerated only where the action is enabled)
Next ==
    \/ pc = "idle" /\ \E r \in FlowRequests : Ask(r)
    \/ pc = "retrieving" /\ \E e \in RetrieverErrors : RetrieverRaises(e)
    \/ pc = "retrieving" /\ \E ret \in FlowReturns : RetrieverReturns(ret)
    \/ pc = "generating" /\ \E out \in GenOutputs : GeneratorReturns(out)
    \/ pc = "generating" /\ \E e \in GenErrors : GeneratorRaises(e)

Spec == Init /\ [][Next]_vars

NextBudget ==
    \/ pc = "idle" /\ \E r \in BudgetRequests : Ask(r)
    \/ pc = "retrieving" /\ \E e \in RetrieverErrors : RetrieverRaises(e)
    \/ pc = "retrieving" /\ \E ret \in BudgetReturns : RetrieverReturns(ret)
    \/ pc = "generating" /\ \E out \in GenOutputs : GeneratorReturns(out)
    \/ pc = "generating" /\ \E e \in GenErrors : GeneratorRaises(e)

SpecBudget == InitBudget /\ [][NextBudget]_vars

-----------------------------------------------------------------------------
(* The pure helpers applied to arbitrary arguments *)

MaxCits == 3
MaxPackBudget == 40
MinTruncCap == MinClipRoom - 2
MaxTruncCap == 80

Cit(i, sc, t) == [id |-> Some(i), score |-> sc, text |-> t, meta |-> EmptyDict]

Text55 == Rep("k", 52) \o <<" ">> \o Rep("k", 2)

PackCits ==
    {Cit("p1", None, Rep("a", 1)), Cit("p5", None, Rep("b", 5)),
     Cit("p12", None, Rep("c", 12)), Cit("p30", None, Rep("d", 30))}

TruncCits ==
    {Cit("t0", None, <<>>), Cit("t6", None, TextA), Cit("t55", None, Text55),
     Cit("t70", None, TextMid)}

DedupeCits ==
    {Cit("d1", Some(3), TextA), Cit("d2", Some(7), TextB),
     Cit("d3", None, <<"x","x"," ","y","y">>), Cit("d4", Some(5), TextBlank),
     Cit("d5", Some(5), <<>>)}

InitFn ==
    /\ settings = DefaultSettings
    /\ hasHybrid = TRUE
    /\ IdlePipe
    /\ IdleFn
    /\ IdleHybrid
    /\ IdleSvc

CallPack(citations, max_tokens, cpt) ==
    /\ fnName = "none"
    /\ fnName' = "_pack_by_token_budget"
    /\ fnArgs' = [citations |-> citations, max_tokens |-> max_tokens, cpt |-> cpt]
    /\ fnOut' = _pack_by_token_budget(citations, max_tokens, cpt)
    /\ UNCHANGED <<pipeVars, hybVars, svcVars>>

CallTruncate(citations, max_chars) ==
    /\ fnName = "none"
    /\ fnName' = "_truncate_by_char_budget"
    /\ fnArgs' = [citations |-> citations, max_chars |-> max_chars]
    /\ fnOut' = _truncate_by_char_budget(citations, max_chars)
    /\ UNCHANGED <<pipeVars, hybVars, svcVars>>

CallDedupe(citations) ==
    /\ fnName = "none"
    /\ fnName' = "_dedupe_citations"
    /\ fnArgs' = [citations |-> citations]
    /\ fnOut' = _dedupe_citations(citations)
    /\ UNCHANGED <<pipeVars, hybVars, svcVars>>

MinScores == {None, Some(3), Some(5), Some(6), Some(8)}

CallScoreFilter(citations, min_score) ==
    /\ fnName = "none"
    /\ fnName' = "_apply_score_filter"
    /\ fnArgs' = [citations |-> citations, min_score |-> min_score]
    /\ fnOut' = _apply_score_filter(citations, min_score)
    /\ UNCHANGED <<pipeVars, hybVars, svcVars>>

\* citations that differ in what could name their source
PromptCit(i, meta) == [id |-> i, score |-> None, text |-> <<"t">>, meta |-> meta]

PromptCits ==
    {PromptCit(Some("c1"), [url |-> "u", source |-> "s", id |-> "i"]),
     PromptCit(Some("c2"), [url |-> "", source |-> "s"]),
     PromptCit(Some("c3"), [id |-> "i"]),
     PromptCit(Some("c4"), [page |-> "7"]),
     PromptCit(Some("c5"), EmptyDict),
     PromptCit(None, EmptyDict)}

StyleTags ==
    {StyleBase, StyleAuditBullets, StyleConcise, StyleQa, StyleVerdict, StyleCompare,
     StyleTable, StyleJson, StyleProcedure, StyleExecSummary, StyleMitreCard}

Styles ==
    {None, Some(<<>>), Some(<<"J","S","O","N">>), Some(<<" ","q","a">>),
     Some(<<"h","a","i","k","u">>), Some(<<"M","i","t","r","e","-","C","a","r","d">>)}
       \cup {Some(t) : t \in StyleTags}

CallBuildPrompt(question, citations, style) ==
    /\ fnName = "none"
    /\ fnName' = "build_prompt"
    /\ fnArgs' = [question |-> question, citations |-> citations, style |-> style]
    /\ fnOut' = build_prompt(question, citations, settings, style)
    /\ UNCHANGED <<pipeVars, hybVars, svcVars>>

NextFn ==
    \/ /\ fnName = "none"
       /\ \E cs \in SeqsUpTo(PromptCits, MaxCits), st \in Styles :
             CallBuildPrompt(QuestionShort, cs, st)
    \/ /\ fnName = "none"
       /\ \E cs \in SeqsUpTo(PackCits, MaxCits), n \in (-1)..MaxPackBudget,
             cpt \in {CptScale, 4 * CptScale} : CallPack(cs, n, cpt)
    \/ /\ fnName = "none"
       /\ \E cs \in SeqsUpTo(TruncCits, MaxCits),
             mc \in {None, Some(0)} \cup {Some(n) : n \in MinTruncCap..MaxTruncCap} :
                CallTruncate(cs, mc)
    \/ /\ fnName = "none"
       /\ \E cs \in SeqsUpTo(DedupeCits, MaxCits) : CallDedupe(cs)
    \/ /\ fnName = "none"
       /\ \E cs \in SeqsUpTo(DedupeCits, MaxCits), ms \in MinScores :
             CallScoreFilter(cs, ms)

SpecFn == InitFn /\ [][NextFn]_vars

-----------------------------------------------------------------------------
(* OpenSearchService.search_hybrid_slim (services/opensearch_service.py) *)

\* a float score is kept as the exact fraction n/d
Frac(n, d) == [n |-> n, d |-> d]
FracZero == Frac(0, 1)
FracAdd(a, b) == Frac(a.n * b.d + b.n * a.d, a.d * b.d)
FracLt(a, b) == a.n * b.d < b.n * a.d
FracEq(a, b) == a.n * b.d = b.n * a.d

HybridMinK == 5
RrfK == 60

\* "seq[:n]" of Python
PySlice(seq, n) ==
    IF n >= 0 THEN SubSeq(seq, 1, Min(n, Len(seq)))
    ELSE SubSeq(seq, 1, Max(Len(seq) + n, 0))

\* variant: the ranks are counted from 0
ToRankMapFromZero(hits) ==
    LET F[i \in 0..Len(hits)] ==
            IF i = 0 THEN EmptyDict
            ELSE LET _id == hits[i]._id
                 IN IF _id # ""
                    THEN [x \in DOMAIN F[i-1] \cup {_id} |->
                             IF x = _id THEN i - 1 ELSE F[i-1][x]]
                    ELSE F[i-1]
    IN F[Len(hits)]

\* id -> 1-based position in the hit list (a later position overwrites)
to_rank_map(hits) ==
    LET F[i \in 0..Len(hits)] ==
            IF i = 0 THEN EmptyDict
            ELSE LET _id == hits[i]._id
                 IN IF _id # ""
                    THEN [x \in DOMAIN F[i-1] \cup {_id} |->
                             IF x = _id THEN i ELSE F[i-1][x]]
                    ELSE F[i-1]
    IN F[Len(hits)]

\* the body of "for _id in ids": the RRF score of one id
FusedScore(_id, r_knn, r_bm25) ==
    LET s0 == FracZero
        s1 == IF _id \in DOMAIN r_knn
              THEN FracAdd(s0, Frac(1, RrfK + r_knn[_id])) ELSE s0
    IN IF _id \in DOMAIN r_bm25
       THEN FracAdd(s1, Frac(1, RrfK + r_bm25[_id])) ELSE s1

\* the orders in which a set can be iterated
Orders(S) ==
    {o \in [1..Cardinality(S) -> S] : \A i, j \in 1..Cardinality(S) : i # j => o[i] # o[j]}

\* where a stable descending sort puts x into an already sorted list
InsertDesc(sorted, x) ==
    LET n == Cardinality({i \in 1..Len(sorted) : ~FracLt(sorted[i].score, x.score)})
    IN SubSeq(sorted, 1, n) \o <<x>> \o SubSeq(sorted, n + 1, Len(sorted))

\* fused.sort(key=score, reverse=True): stable, equal scores keep their order
SortByScoreDesc(seq) ==
    LET F[i \in 0..Len(seq)] == IF i = 0 THEN <<>> ELSE InsertDesc(F[i-1], seq[i])
    IN F[Len(seq)]

\* {h["_id"]: h["_source"] for h in hits}: the last hit of an id wins
src_by_id(hits) ==
    [_id \in {hits[i]._id : i \in 1..Len(hits)} |->
        hits[CHOOSE i \in 1..Len(hits) :
                /\ hits[i]._id = _id
                /\ \A j \in 1..Len(hits) : hits[j]._id = _id => j <= i]._source]

\* everything search_hybrid_slim does once both hit lists are there; order is
\* the order in which the set of ids happens to be iterated
FuseHits(knn_hits, bm25_hits, order, top_k) ==
    LET r_knn == to_rank_map(knn_hits)
        r_bm25 == to_rank_map(bm25_hits)
        fused == SortByScoreDesc(
                    [i \in 1..Len(order) |->
                        [id |-> order[i],
                         score |-> FusedScore(order[i], r_knn, r_bm25)]])
        src == src_by_id(knn_hits \o bm25_hits)
        top == PySlice(fused, top_k)
    IN [i \in 1..Len(top) |->
           [id |-> top[i].id, score |-> top[i].score,
            text |-> src[top[i].id].text, meta |-> src[top[i].id].metadata]]

-----------------------------------------------------------------------------

(* State machine of one search_hybrid_slim call *)

HybridIds == {"a", "b", "c"}

\* the indexed document of an id, and the document after a re-index of it
DocV1(_id) == [text |-> <<_id, "1">>, metadata |-> [rev |-> "1"]]
DocV2(_id) == [text |-> <<_id, "2">>, metadata |-> [rev |-> "2"]]

RawHit(_id, src) == [_id |-> _id, _source |-> src]

\* one search returns each document at most once
DistinctIds(hits) == \A i, j \in 1..Len(hits) : i # j => hits[i]._id # hits[j]._id

HitLists(S) == {hits \in SeqsUpTo(S, Cardinality(HybridIds)) : DistinctIds(hits)}

\* the vector search runs first; document "a" may be re-indexed before the
\* lexical search runs
KnnHitLists == HitLists({RawHit(i, DocV1(i)) : i \in HybridIds})
Bm25HitLists == HitLists({RawHit(i, DocV1(i)) : i \in HybridIds} \cup {RawHit("a", DocV2("a"))})

HybridTopKs == {1, 2, 5}

InitHybrid ==
    /\ settings = DefaultSettings
    /\ hasHybrid = TRUE
    /\ IdlePipe
    /\ IdleFn
    /\ IdleHybrid
    /\ IdleSvc

\* search_hybrid_slim is entered and starts the vector search
SearchHybrid(query, top_k) ==
    /\ hybPc = "idle"
    /\ hybArgs' = [query |-> query, top_k |-> top_k]
    /\ searchCalls' = <<[method |-> "search_knn", query |-> query,
                        size |-> Max(HybridMinK, top_k)]>>
    /\ hybPc' = "knn"
    /\ UNCHANGED <<knnHits, bm25Hits, idOrder, hybOut, hybFailure, pipeVars, fnVars, svcVars>>

\* the vector search returns; the lexical search is started
KnnReturns(hits) ==
    /\ hybPc = "knn"
    /\ knnHits' = hits
    /\ searchCalls' = Append(searchCalls,
                             [method |-> "_bm25_search", query |-> hybArgs.query,
                              size |-> Max(HybridMinK, hybArgs.top_k)])
    /\ hybPc' = "bm25"
    /\ UNCHANGED <<hybArgs, bm25Hits, idOrder, hybOut, hybFailure, pipeVars, fnVars, svcVars>>

\* the vector search raises: nothing catches it
KnnRaises(e) ==
    /\ hybPc = "knn"
    /\ hybFailure' = Some(e)
    /\ hybPc' = "failed"
    /\ UNCHANGED <<hybArgs, searchCalls, knnHits, bm25Hits, idOrder, hybOut,
                   pipeVars, fnVars, svcVars>>

\* the lexical search returns: fusion, sort, cut and the slim result
Bm25Returns(hits) ==
    /\ hybPc = "bm25"
    /\ bm25Hits' = hits
    /\ idOrder' \in Orders(DOMAIN to_rank_map(knnHits) \cup DOMAIN to_rank_map(hits))
    /\ hybOut' = Some(FuseHits(knnHits, hits, idOrder', hybArgs.top_k))
    /\ hybPc' = "done"
    /\ UNCHANGED <<hybArgs, searchCalls, knnHits, hybFailure, pipeVars, fnVars, svcVars>>

\* the lexical search raises: nothing catches it
Bm25Raises(e) ==
    /\ hybPc = "bm25"
    /\ hybFailure' = Some(e)
    /\ hybPc' = "failed"
    /\ UNCHANGED <<hybArgs, searchCalls, knnHits, bm25Hits, idOrder, hybOut,
                   pipeVars, fnVars, svcVars>>

NextHybrid ==
    \/ /\ hybPc = "idle"
       /\ \E k \in HybridTopKs : SearchHybrid(QuestionShort, k)
    \/ /\ hybPc = "knn"
       /\ \E hits \in KnnHitLists : KnnReturns(hits)
    \/ /\ hybPc = "knn"
       /\ \E e \in RetrieverErrors : KnnRaises(e)
    \/ /\ hybPc = "bm25"
       /\ \E hits \in Bm25HitLists : Bm25Returns(hits)
    \/ /\ hybPc = "bm25"
       /\ \E e \in RetrieverErrors : Bm25Raises(e)

SpecHybrid == InitHybrid /\ [][NextHybrid]_vars

-----------------------------------------------------------------------------
(* LlamaService.generate_response_async, the generator processes it starts, *)
(* and the try/except of ask around the call                                *)

\* an exception: its class and str(e)
Exc(cls, msg) == [cls |-> cls, msg |-> msg]

\* the classes "except Exception" catches; asyncio.CancelledError derives
\* from BaseException and is not among them
ExceptionClasses == {"RuntimeError", "OSError"}

ErrInvalidPath == <<"i","n","v","a","l","i","d">>
ErrTimeout == <<"t","i","m","e","o","u","t">>
ErrExit == <<"e","x","i","t">>
ErrSpawn == <<"s","p","a","w","n">>

\* variant: the prompt always follows "-p"
BuildCommandAlwaysFlag(use_prompt_flag) == <<"-p", "prompt">>

\* the end of the command line: the prompt after "-p", or the prompt alone
_build_command(use_prompt_flag) ==
    IF use_prompt_flag THEN <<"-p", "prompt">> ELSE <<"prompt">>

\* asyncio.create_subprocess_exec(*cmd)
StartProcess(cmd) == [cmd |-> cmd, state |-> "running", returncode |-> None]

\* the current process with its state replaced
LastProc(ps, st, code) ==
    [ps EXCEPT ![Len(ps)] = [@ EXCEPT !.state = st, !.returncode = code]]

\* ask from the generator call on: strip, or the except branch, then the
\* guard rails; an exception that is not an Exception leaves ask
AskAfterGenerator(s, citations, outcome) ==
    IF outcome.kind = "return"
    THEN Returned(RagResponse(GuardAnswer(Strip(outcome.value), citations, s),
                              citations))
    ELSE IF outcome.value.cls \in ExceptionClasses
         THEN Returned(RagResponse(
                  GuardAnswer(GeneratorFailureAnswer(s, outcome.value.msg),
                              citations, s), citations))
         ELSE Raised(outcome.value)

LlamaCallers == {"ask", "direct"}
LlamaTimeouts == {None, Some(30)}
ExitCodes == {0, 1, 2}
Stdouts == {<<>>, <<" ","o","k","\n">>, <<"s","e","e"," ","[","1","]">>}
SpawnOutcomes == {"started", "OSError"}
LlamaCitations == <<Cit("a", Some(3), TextA)>>

\* generate_response_async is left with the outcome; when ask made the
\* call, ask resumes with it
Finish(caller, outcome) ==
    /\ genPc' = "done"
    /\ genOut' = Some(outcome)
    /\ askOut' = IF caller = "ask"
                 THEN AskAfterGenerator(settings, LlamaCitations, outcome)
                 ELSE None

\* the call up to its first suspension: the two path checks, the command
\* of the first attempt, its process.  ask passes no timeout.
Generate(caller, timeout, prefer_positional, pathsOk, spawn) ==
    /\ genPc = "idle"
    /\ caller = "ask" => timeout = None
    /\ genArgs' = [caller |-> caller, timeout |-> timeout,
                   prefer_positional |-> prefer_positional]
    /\ IF ~pathsOk
       THEN /\ procs' = procs
            /\ Finish(caller, [kind |-> "raise",
                               value |-> Exc("RuntimeError", ErrInvalidPath)])
       ELSE IF spawn = "OSError"
       THEN /\ procs' = procs
            /\ Finish(caller, [kind |-> "raise", value |-> Exc("OSError", ErrSpawn)])
       ELSE LET initial_flag == ~prefer_positional
            IN /\ procs' = <<StartProcess(_build_command(initial_flag))>>
               /\ genPc' = "run1"
               /\ UNCHANGED <<genOut, askOut>>
    /\ UNCHANGED <<pipeVars, fnVars, hybVars, concVars, idxVars>>

\* the process of the current attempt exits: return its output on exit
\* code 0; otherwise the first attempt is followed by the second, with the
\* other convention, and the second by RuntimeError
ProcessExits(code, out, spawn) ==
    /\ genPc \in {"run1", "run2"}
    /\ LET exited == LastProc(procs, "exited", Some(code))
           initial_flag == ~genArgs.prefer_positional
           fallback_flag == ~initial_flag
       IN IF code = 0
          THEN /\ procs' = exited
               /\ Finish(genArgs.caller, [kind |-> "return", value |-> Strip(out)])
          ELSE IF genPc = "run2"
          THEN /\ procs' = exited
               /\ Finish(genArgs.caller,
                         [kind |-> "raise", value |-> Exc("RuntimeError", ErrExit)])
          ELSE IF spawn = "OSError"
          THEN /\ procs' = exited
               /\ Finish(genArgs.caller,
                         [kind |-> "raise", value |-> Exc("OSError", ErrSpawn)])
          ELSE /\ procs' = Append(exited, StartProcess(_build_command(fallback_flag)))
               /\ genPc' = "run2"
               /\ UNCHANGED <<genOut, askOut>>
    /\ UNCHANGED <<genArgs, pipeVars, fnVars, hybVars, concVars, idxVars>>

\* variant: the timeout is reported without killing the process
TimeoutFiresNoKill ==
    /\ genPc \in {"run1", "run2"}
    /\ genArgs.timeout # None
    /\ procs' = procs
    /\ Finish(genArgs.caller,
              [kind |-> "raise", value |-> Exc("RuntimeError", ErrTimeout)])
    /\ UNCHANGED <<genArgs, pipeVars, fnVars, hybVars, concVars, idxVars>>

\* wait_for gives up after the timeout of the call: the process is killed,
\* and the TimeoutError becomes RuntimeError
TimeoutFires ==
    /\ genPc \in {"run1", "run2"}
    /\ genArgs.timeout # None
    /\ procs' = LastProc(procs, "killed", None)
    /\ Finish(genArgs.caller,
              [kind |-> "raise", value |-> Exc("RuntimeError", ErrTimeout)])
    /\ UNCHANGED <<genArgs, pipeVars, fnVars, hybVars, concVars, idxVars>>

\* the task awaiting the call is cancelled: CancelledError is raised at the
\* suspended await and passes every except clause on its way out
Cancel ==
    /\ genPc \in {"run1", "run2"}
    /\ procs' = procs
    /\ Finish(genArgs.caller,
              [kind |-> "raise", value |-> Exc("CancelledError", <<>>)])
    /\ UNCHANGED <<genArgs, pipeVars, fnVars, hybVars, concVars, idxVars>>

InitLlama ==
    /\ settings = DefaultSettings
    /\ hasHybrid = TRUE
    /\ IdlePipe
    /\ IdleFn
    /\ IdleHybrid
    /\ IdleSvc

NextLlama ==
    \/ /\ genPc = "idle"
       /\ \E caller \in LlamaCallers, timeout \in LlamaTimeouts,
             prefer_positional \in BOOLEAN, pathsOk \in BOOLEAN,
             spawn \in SpawnOutcomes :
             Generate(caller, timeout, prefer_positional, pathsOk, spawn)
    \/ /\ genPc \in {"run1", "run2"}
       /\ \E code \in ExitCodes, out \in Stdouts, spawn \in SpawnOutcomes :
             ProcessExits(code, out, spawn)
    \/ TimeoutFires
    \/ Cancel

SpecLlama == InitLlama /\ [][NextLlama]_vars

\* the event loop runs the timer of a call that has one; nothing makes a
\* generator process exit
SpecLlamaFair == SpecLlama /\ WF_vars(TimeoutFires)

-----------------------------------------------------------------------------
(* Simultaneous RagDomain.ask executions.  Every request gets its own      *)
(* RagDomain (get_rag_domain), and the variables of ask are local to each  *)
(* coroutine; self.settings is only read.                                  *)

\* variant: the executions keep their variables in one shared place
SharedFrame(i) == 1

\* the frame holding the local variables of execution i
FrameOf(i) == i

ConcSettings == [DefaultSettings EXCEPT !.ensure_citations_in_output = TRUE]
ConcRequests ==
    {[BaseRequest EXCEPT !.max_context_chars = c] : c \in {None, Some(60)}}
ConcReturns == {Some(<<>>), Some(<<HitA>>), Some(<<HitMid, HitA>>)}
ConcOutputs == {Some(<<" ","o","k","\n">>), Some(<<"[","1","]">>)}

\* the executions that have begun and not ended
InFlight == {j \in 1..NTasks : tasks[j].pc \in {"retrieving", "generating"}}

\* execution i is entered and calls the retriever (overlaps records the
\* executions in flight at that moment)
TaskAsk(i, r) ==
    /\ tasks[i].pc = "idle"
    /\ tasks' = [tasks EXCEPT ![i] = [@ EXCEPT !.pc = "retrieving", !.req = r,
                                               !.overlaps = InFlight]]
    /\ UNCHANGED <<frames, pipeVars, fnVars, hybVars, llamaVars, idxVars>>

\* its retriever raises
TaskRetrieverRaises(i, e) ==
    /\ tasks[i].pc = "retrieving"
    /\ tasks' = [tasks EXCEPT ![i] = [@ EXCEPT !.pc = "failed",
                                               !.retrieverReply = Raised(e),
                                               !.failure = Some(e)]]
    /\ UNCHANGED <<frames, pipeVars, fnVars, hybVars, llamaVars, idxVars>>

\* its retriever returns: curation and budgeting into the local variables,
\* then the short-circuit return or the generator call
TaskRetrieverReturns(i, ret) ==
    /\ tasks[i].pc = "retrieving"
    /\ LET r == tasks[i].req
           rawHits_ == IF IsNone(ret) THEN <<>> ELSE Val(ret)
           answer_max_int == AnswerMaxInt(r)
           citations ==
               _truncate_by_char_budget(
                   _pack_by_token_budget(
                       Curate(ToCitations(rawHits_), settings),
                       AvailableCtxTokens(r, settings, answer_max_int),
                       settings.chars_per_token),
                   CharCap(r, settings))
       IN IF ShortCircuits(citations, settings)
          THEN /\ tasks' = [tasks EXCEPT ![i] =
                              [@ EXCEPT !.pc = "done",
                                        !.retrieverReply = Returned(ret),
                                        !.response = Some(RagResponse(
                                            settings.fallback_answer, citations))]]
               /\ frames' = [frames EXCEPT ![FrameOf(i)] =
                                [citations |-> citations, prompt |-> None]]
          ELSE /\ tasks' = [tasks EXCEPT ![i] =
                              [@ EXCEPT !.pc = "generating",
                                        !.retrieverReply = Returned(ret)]]
               /\ frames' = [frames EXCEPT ![FrameOf(i)] =
                                [citations |-> citations,
                                 prompt |-> Some(build_prompt(r.question, citations,
                                                              settings, r.style))]]
    /\ UNCHANGED <<pipeVars, fnVars, hybVars, llamaVars, idxVars>>

\* its generator returns, or raises an Exception: the answer, the guard
\* rails, and the response with the citations of the local variables
TaskGeneratorReplies(i, reply) ==
    /\ tasks[i].pc = "generating"
    /\ LET citations == frames[FrameOf(i)].citations
           answer == IF Val(reply).kind = "raise"
                     THEN GeneratorFailureAnswer(settings, Val(reply).value)
                     ELSE Strip(IF IsNone(Val(reply).value) THEN <<>>
                                ELSE Val(Val(reply).value))
       IN tasks' = [tasks EXCEPT ![i] =
                      [@ EXCEPT !.pc = "done",
                                !.generatorReply = reply,
                                !.response = Some(RagResponse(
                                    GuardAnswer(answer, citations, settings),
                                    citations))]]
    /\ UNCHANGED <<frames, pipeVars, fnVars, hybVars, llamaVars, idxVars>>

InitConc ==
    /\ settings = ConcSettings
    /\ hasHybrid = TRUE
    /\ IdlePipe
    /\ IdleFn
    /\ IdleHybrid
    /\ IdleSvc

NextConc ==
    \E i \in 1..NTasks :
        \/ /\ tasks[i].pc = "idle"
           /\ \E r \in ConcRequests : TaskAsk(i, r)
        \/ /\ tasks[i].pc = "retrieving"
           /\ \E e \in RetrieverErrors : TaskRetrieverRaises(i, e)
        \/ /\ tasks[i].pc = "retrieving"
           /\ \E ret \in ConcReturns : TaskRetrieverReturns(i, ret)
        \/ /\ tasks[i].pc = "generating"
           /\ \E reply \in {Returned(o) : o \in ConcOutputs}
                           \cup {Raised(e) : e \in GenErrors} :
                 TaskGeneratorReplies(i, reply)

SpecConc == InitConc /\ [][NextConc]_vars

-----------------------------------------------------------------------------
(* OpenSearchService.ensure_index, called by the constructor of every      *)
(* OpenSearchService; get_rag_domain constructs one for each request, so   *)
(* the calls of simultaneous requests interleave at their two requests to  *)
(* the cluster.                                                            *)

ErrAlreadyExists == "resource_already_exists_exception"

\* the cluster's answer to indices.create: RequestError when the index exists
CreateReply(exists) == IF exists THEN Some(ErrAlreadyExists) ELSE None

\* service i calls ensure_index: indices.exists; return when it is true
EnsureIndex(i) ==
    /\ ensure[i].pc \in {"idle", "done"}
    /\ ensure[i].calls < MaxEnsureCalls
    /\ ensure' = [ensure EXCEPT ![i] =
                     [pc |-> IF indexExists THEN "done" ELSE "creating",
                      calls |-> @.calls + 1,
                      existedAtCall |-> indexExists,
                      failure |-> None]]
    /\ UNCHANGED <<indexExists, createRequests, pipeVars, fnVars, hybVars,
                   llamaVars, concVars>>

\* service i, having seen no index, sends indices.create
CreateIndex(i) ==
    /\ ensure[i].pc = "creating"
    /\ createRequests' = Append(createRequests,
                                [service |-> i, existed |-> indexExists])
    /\ indexExists' = TRUE
    /\ ensure' = [ensure EXCEPT ![i] =
                     [@ EXCEPT !.pc = IF IsNone(CreateReply(indexExists))
                                      THEN "done" ELSE "failed",
                               !.failure = CreateReply(indexExists)]]
    /\ UNCHANGED <<pipeVars, fnVars, hybVars, llamaVars, concVars>>

InitIndex ==
    /\ settings = DefaultSettings
    /\ hasHybrid = TRUE
    /\ IdlePipe
    /\ IdleFn
    /\ IdleHybrid
    /\ IdleSvc

NextIndex ==
    \E i \in 1..NServices :
        \/ EnsureIndex(i)
        \/ CreateIndex(i)

SpecIndex == InitIndex /\ [][NextIndex]_vars

-----------------------------------------------------------------------------

(* Properties *)

StartsWith(s, p) == Len(s) >= Len(p) /\ SubSeq(s, 1, Len(p)) = p
EndsWith(s, p) == Len(s) >= Len(p) /\ SubSeq(s, Len(s) - Len(p) + 1, Len(s)) = p
Contains(s, p) == \E i \in 1..(Len(s) - Len(p) + 1) : SubSeq(s, i, i + Len(p) - 1) = p

RetrievalReturned == ~IsNone(retrieverReply) /\ Val(retrieverReply).kind = "return"
RetrievalFailed == ~IsNone(retrieverReply) /\ Val(retrieverReply).kind = "raise"
GenerationReturned == ~IsNone(generatorReply) /\ Val(generatorReply).kind = "return"
GenerationFailed == ~IsNone(generatorReply) /\ Val(generatorReply).kind = "raise"

TextsOf(seq) == [i \in 1..Len(seq) |-> seq[i].text]

\* C1: when fewer citations than min_citations_to_answer survive curation and
\* budgeting and short_circuit_on_empty is on, the request ends with the response
\* {fallback_answer, surviving citations} and the generator is never invoked.
C1_ShortCircuitSkipsGenerator ==
    (/\ RetrievalReturned
     /\ Len(budgeted) < settings.min_citations_to_answer
     /\ settings.short_circuit_on_empty)
    => /\ pc = "done"
       /\ response = Some([answer |-> settings.fallback_answer, citations |-> budgeted])
       /\ generatorCalls = <<>>
       /\ IsNone(generatorReply)
       /\ IsNone(prompt)

C1_Witness ==
    /\ pc = "done"
    /\ settings.short_circuit_on_empty
    /\ settings.min_citations_to_answer = 2
    /\ Len(budgeted) = 1
    /\ ~IsNone(response)
    /\ Val(response).answer = settings.fallback_answer
    /\ Val(response).citations = budgeted
    /\ generatorCalls = <<>>

\* C2: when the generator call raises (error or timeout) ask does not fail: it
\* returns a response whose answer starts with fallback_answer and embeds the error
\* detail, and whose citations are the budgeted list the prompt was built from.
C2_GeneratorFailureBecomesFallback ==
    GenerationFailed
    => /\ pc = "done"
       /\ IsNone(failure)
       /\ ~IsNone(response)
       /\ StartsWith(Val(response).answer, settings.fallback_answer)
       /\ Contains(Val(response).answer, Val(generatorReply).value)
       /\ Val(response).citations = budgeted
       /\ ~IsNone(prompt)
       /\ TextsOf(Val(prompt).ctx) = TextsOf(Val(response).citations)

C2_Witness ==
    /\ GenerationFailed
    /\ pc = "done"
    /\ Len(budgeted) = 2
    /\ ~IsNone(response)
    /\ Val(response).answer =
          settings.fallback_answer \o ErrOpen \o Val(generatorReply).value \o ErrClose

\* C3: when the retriever call (plain or hybrid) raises, ask ends in failure with
\* that error: no response, no fallback answer, and the generator is never invoked.
C3_RetrievalFailurePropagates ==
    RetrievalFailed
    => /\ pc = "failed"
       /\ failure = Some(Val(retrieverReply).value)
       /\ IsNone(response)
       /\ generatorCalls = <<>>
       /\ IsNone(generatorReply)

C3_Witness ==
    /\ RetrievalFailed
    /\ pc = "failed"
    /\ Len(retrieverCalls) = 1
    /\ retrieverCalls[1].method = "search_hybrid_slim"
    /\ IsNone(response)

\* C4: once the retrieval call has returned normally the request never ends in
\* failure and every finished request carries a response; a failure happens only
\* when the retrieval call itself failed.
C4_OnlyRetrievalFails ==
    /\ RetrievalReturned
       => /\ pc \in {"generating", "done"}
          /\ IsNone(failure)
          /\ (pc = "done" => ~IsNone(response))
          /\ (~IsNone(generatorReply) => pc = "done")
    /\ (pc = "failed" \/ ~IsNone(failure)) => RetrievalFailed

C4_Witness ==
    /\ RetrievalReturned
    /\ GenerationFailed
    /\ budgeted = <<>>
    /\ pc = "done"
    /\ ~IsNone(response)
    /\ IsNone(failure)

\* C5: in every response for which a prompt was built, the citations returned are
\* exactly the citations rendered into the prompt (the list left by token packing
\* and character truncation), in the same order and with the same texts.
C5_ResponseCitationsAreThePromptCitations ==
    (~IsNone(response) /\ ~IsNone(prompt))
    => LET cits == Val(response).citations
           ctx == Val(prompt).ctx
       IN /\ cits = budgeted
          /\ Len(ctx) = Len(cits)
          /\ \A i \in 1..Len(cits) : ctx[i].n = i /\ ctx[i].text = cits[i].text
          /\ Val(prompt).placeholder = (cits = <<>>)

C5_Witness ==
    /\ ~IsNone(response)
    /\ ~IsNone(prompt)
    /\ Len(budgeted) = 2
    /\ Len(packed) = 2
    /\ budgeted[2].text # packed[2].text
    /\ Val(prompt).ctx[2].text = Val(response).citations[2].text

\* C6: the max_tokens handed to the generator is answer_max_tokens if present,
\* else the legacy max_tokens if present, else 400, clamped to [64, 2000].
C6_GeneratorMaxTokensClamped ==
    \A i \in 1..Len(generatorCalls) :
        LET m == generatorCalls[i].max_tokens
            v == IF ~IsNone(req.answer_max_tokens) THEN Val(req.answer_max_tokens)
                 ELSE IF ~IsNone(req.max_tokens) THEN Val(req.max_tokens)
                 ELSE 400
        IN /\ 64 <= m
           /\ m <= 2000
           /\ m = (IF v < 64 THEN 64 ELSE IF v > 2000 THEN 2000 ELSE v)

C6_Witness ==
    /\ Len(generatorCalls) = 1
    /\ req.answer_max_tokens = Some(10)
    /\ req.max_tokens = Some(500)
    /\ generatorCalls[1].max_tokens = 64

\* estimatedTokens(text) = max(1, floor(len(text) / chars_per_token))
C7_EstimatedTokens(text) ==
    LET q == (Len(text) * CptScale) \div settings.chars_per_token
    IN IF q < 1 THEN 1 ELSE q

\* C7: the token budget handed to token packing equals
\* max(128, ctx_size - answerMaxTokens - reserve_tokens - estimatedTokens(question))
\* and is never below 128.
C7_AvailableTokensFloor ==
    RetrievalReturned
    => LET room == settings.ctx_size - answerMaxInt - settings.reserve_tokens
                   - C7_EstimatedTokens(req.question)
       IN /\ availableCtx = (IF room > 128 THEN room ELSE 128)
          /\ availableCtx >= 128
          /\ packed = _pack_by_token_budget(curated, availableCtx,
                                            settings.chars_per_token)

C7_Witness ==
    /\ RetrievalReturned
    /\ availableCtx = 128
    /\ settings.ctx_size - answerMaxInt - settings.reserve_tokens
         - C7_EstimatedTokens(req.question) < 0
    /\ Len(packed) < Len(curated)

C8_Need(c, cpt) ==
    LET q == (Len(c.text) * CptScale) \div cpt
    IN (IF q < 1 THEN 1 ELSE q) + 8

RECURSIVE C8_Used(_, _)
C8_Used(out, cpt) ==
    IF out = <<>> THEN 0 ELSE C8_Need(Head(out), cpt) + C8_Used(Tail(out), cpt)

\* C8: for availableTokens > 0, _pack_by_token_budget returns at least one citation
\* of a non-empty input, and when it returns more than one, the sum of
\* estimatedTokens(text) + 8 over the returned citations is at most availableTokens.
C8_PackWithinBudget ==
    (fnName = "_pack_by_token_budget" /\ fnArgs.max_tokens > 0)
    => /\ (fnArgs.citations # <<>> => Len(fnOut) >= 1)
       /\ (Len(fnOut) > 1 => C8_Used(fnOut, fnArgs.cpt) <= fnArgs.max_tokens)

C8_Witness ==
    /\ fnName = "_pack_by_token_budget"
    /\ fnArgs.max_tokens > 0
    /\ Len(fnArgs.citations) = 3
    /\ Len(fnOut) = 2
    /\ C8_Used(fnOut, fnArgs.cpt) < fnArgs.max_tokens
    /\ C8_Used(fnArgs.citations, fnArgs.cpt) > fnArgs.max_tokens

C9_NonEmptyText(c) == c.text # <<>>

RECURSIVE C9_TotalLen(_)
C9_TotalLen(out) == IF out = <<>> THEN 0 ELSE Len(Head(out).text) + C9_TotalLen(Tail(out))

\* C9: for a positive maxChars the texts returned by _truncate_by_char_budget total
\* at most maxChars, and a clipped citation's text ends with "..." and is strictly
\* shorter than its original text.
C9_TruncateWithinCap ==
    (/\ fnName = "_truncate_by_char_budget"
     /\ ~IsNone(fnArgs.max_chars)
     /\ Val(fnArgs.max_chars) > 0)
    => LET src == SelectSeq(fnArgs.citations, C9_NonEmptyText)
       IN /\ C9_TotalLen(fnOut) <= Val(fnArgs.max_chars)
          /\ Len(fnOut) <= Len(src)
          /\ \A j \in 1..Len(fnOut) :
                /\ fnOut[j].id = src[j].id
                /\ fnOut[j].text # src[j].text
                   => /\ EndsWith(fnOut[j].text, <<".", ".", ".">>)
                      /\ Len(fnOut[j].text) < Len(src[j].text)

C9_Witness ==
    /\ fnName = "_truncate_by_char_budget"
    /\ ~IsNone(fnArgs.max_chars)
    /\ Val(fnArgs.max_chars) > 0
    /\ Len(fnOut) = 2
    /\ fnOut[1] = fnArgs.citations[1]
    /\ fnOut[2].text # fnArgs.citations[2].text
    /\ EndsWith(fnOut[2].text, <<".", ".", ".">>)
    /\ Len(fnOut[1].text) + Len(fnOut[2].text) < Val(fnArgs.max_chars)

C10_Norm(hit) == _normalize_text(hit.text)

\* citation c is what hit h becomes
C10_From(c, h) ==
    /\ HitHasText(h)
    /\ c.id = h.id
    /\ c.score = h.score
    /\ c.text = C10_Norm(h)

\* C10: with dedupe on, the curated list holds no two citations with the same
\* normalized text, the citation kept for a text is the first hit (among the hits
\* that carry text) with that normalized text, and the list is an order-preserving
\* subsequence of the hits, hence never longer than the input (empty for empty).
C10_DedupeKeepsFirst ==
    (RetrievalReturned /\ settings.dedupe)
    => /\ \A i, j \in 1..Len(curated) :
             i # j => _normalize_text(Some(curated[i].text))
                        # _normalize_text(Some(curated[j].text))
       /\ Len(curated) <= Len(rawHits)
       /\ (rawHits = <<>> => curated = <<>>)
       /\ \E f \in [1..Len(curated) -> 1..Len(rawHits)] :
             /\ \A i, j \in 1..Len(curated) : i < j => f[i] < f[j]
             /\ \A j \in 1..Len(curated) :
                   /\ C10_From(curated[j], rawHits[f[j]])
                   /\ \A i \in 1..(f[j] - 1) :
                         HitHasText(rawHits[i])
                            => C10_Norm(rawHits[i]) # curated[j].text

C10_Witness ==
    /\ RetrievalReturned
    /\ settings.dedupe
    /\ Len(rawHits) = 2
    /\ rawHits[1].id # rawHits[2].id
    /\ HitHasText(rawHits[1])
    /\ HitHasText(rawHits[2])
    /\ C10_Norm(rawHits[1]) = C10_Norm(rawHits[2])
    /\ Len(curated) = 1
    /\ curated[1].id = rawHits[1].id

\* citation c carries the normalized text of some hit that had text
C11_FromTextHit(c) ==
    \E i \in 1..Len(rawHits) :
        /\ HitHasText(rawHits[i])
        /\ c.text = _normalize_text(rawHits[i].text)

\* C11: no citation produced by the curation step has an empty text: hits whose
\* text is absent or empty are dropped, and each kept citation carries the trimmed,
\* whitespace-collapsed text of a hit.
C11_NoEmptyCitationText ==
    RetrievalReturned
    => \A i \in 1..Len(curated) :
          /\ curated[i].text # <<>>
          /\ C11_FromTextHit(curated[i])

\* the positions of the argument list that the filter has to keep
C12_Kept(citations, min_score) ==
    {i \in 1..Len(citations) :
        /\ ~IsNone(citations[i].score)
        /\ Val(citations[i].score) >= Val(min_score)}

\* C12: with min_score set, the score filter returns exactly the citations whose
\* score is not None and is >= min_score, in their original relative order; with
\* min_score unset it returns its argument unchanged.
C12_ScoreFilterKeepsExactly ==
    fnName = "_apply_score_filter"
    => IF IsNone(fnArgs.min_score)
       THEN fnOut = fnArgs.citations
       ELSE LET kept == C12_Kept(fnArgs.citations, fnArgs.min_score)
            IN /\ Len(fnOut) = Cardinality(kept)
               /\ \E f \in [1..Len(fnOut) -> kept] :
                     /\ \A i, j \in 1..Len(fnOut) : i < j => f[i] < f[j]
                     /\ \A j \in 1..Len(fnOut) : fnOut[j] = fnArgs.citations[f[j]]

C12_Witness ==
    /\ fnName = "_apply_score_filter"
    /\ fnArgs.min_score = Some(5)
    /\ Len(fnArgs.citations) = 3
    /\ fnArgs.citations[1].score = Some(7)
    /\ fnArgs.citations[2].score = None
    /\ fnArgs.citations[3].score = Some(5)
    /\ fnOut = <<fnArgs.citations[1], fnArgs.citations[3]>>

HybridReturned == hybPc = "done" /\ ~IsNone(hybOut)
HybridFailed == hybPc = "failed" /\ ~IsNone(hybFailure)

\* the 1-based positions at which a hit list holds an id
PositionsOf(hits, _id) == {i \in 1..Len(hits) : hits[i]._id = _id}

\* score = sum over the positions in ps of 1/(60 + position), for at most one
\* position per list
C13_IsRrfSum(score, knnPos, bm25Pos) ==
    CASE knnPos # {} /\ bm25Pos # {} ->
            LET r1 == CHOOSE r \in knnPos : TRUE
                r2 == CHOOSE r \in bm25Pos : TRUE
            IN /\ score.n * ((60 + r1) * (60 + r2)) = score.d * ((60 + r1) + (60 + r2))
               /\ score.n * (60 + r1) > score.d
               /\ score.n * (60 + r2) > score.d
      [] knnPos # {} /\ bm25Pos = {} ->
            LET r1 == CHOOSE r \in knnPos : TRUE
            IN score.n * (60 + r1) = score.d
      [] knnPos = {} /\ bm25Pos # {} ->
            LET r2 == CHOOSE r \in bm25Pos : TRUE
            IN score.n * (60 + r2) = score.d
      [] OTHER -> FALSE

\* C13: the fused score of every returned id is the sum, over the lists that
\* contain it, of 1/(60 + rank) with ranks counted from 1; an id in both lists
\* scores 1/(60+r1) + 1/(60+r2), strictly more than either term alone; a list
\* that does not contain the id adds nothing.
C13_FusedScoreIsRrfSum ==
    HybridReturned
    => \A i \in 1..Len(Val(hybOut)) :
          LET o == Val(hybOut)[i]
          IN /\ o.score.d > 0
             /\ C13_IsRrfSum(o.score, PositionsOf(knnHits, o.id),
                             PositionsOf(bm25Hits, o.id))

C13_Witness ==
    /\ HybridReturned
    /\ Len(knnHits) = 2
    /\ Len(bm25Hits) = 1
    /\ knnHits[2]._id = bm25Hits[1]._id
    /\ Len(Val(hybOut)) = 2
    /\ Val(hybOut)[1].id = knnHits[2]._id
    /\ Val(hybOut)[1].score.n * (62 * 61) = Val(hybOut)[1].score.d * (62 + 61)
    /\ Val(hybOut)[2].id = knnHits[1]._id
    /\ Val(hybOut)[2].score.n * 61 = Val(hybOut)[2].score.d

\* position at which an id is first seen when the vector list is read before the
\* lexical list
C14_FirstSeen(_id) ==
    LET all == knnHits \o bm25Hits
    IN CHOOSE i \in 1..Len(all) :
          /\ all[i]._id = _id
          /\ \A j \in 1..(i - 1) : all[j]._id # _id

\* C14: the hybrid result is in descending order of fused score, and ids with
\* equal fused score appear in first-seen order across the inputs (vector list
\* first, then lexical list).
C14_SortedTiesFirstSeen ==
    HybridReturned
    => \A i, j \in 1..Len(Val(hybOut)) :
          i < j =>
             LET a == Val(hybOut)[i]
                 b == Val(hybOut)[j]
             IN /\ ~FracLt(a.score, b.score)
                /\ FracEq(a.score, b.score) => C14_FirstSeen(a.id) < C14_FirstSeen(b.id)

\* the descending order alone
C14_SortedDescending ==
    HybridReturned
    => \A i, j \in 1..Len(Val(hybOut)) :
          i < j => ~FracLt(Val(hybOut)[i].score, Val(hybOut)[j].score)

\* the text and meta of entry o are those of the hit at position p of hits
C15_TakenFrom(o, hits, p) ==
    /\ o.text = hits[p]._source.text
    /\ o.meta = hits[p]._source.metadata

\* C15: only ids found in at least one of the two hit lists are returned, and
\* the text/meta of a returned id are those of the vector hit whenever the vector
\* list holds the id, those of the lexical hit only when it does not.
C15_VectorHitWins ==
    HybridReturned
    => \A i \in 1..Len(Val(hybOut)) :
          LET o == Val(hybOut)[i]
              kp == PositionsOf(knnHits, o.id)
              bp == PositionsOf(bm25Hits, o.id)
          IN /\ kp \cup bp # {}
             /\ IF kp # {}
                THEN \E p \in kp : C15_TakenFrom(o, knnHits, p)
                ELSE \E p \in bp : C15_TakenFrom(o, bm25Hits, p)

\* what the code does instead: the lexical hit wins when both lists hold the id
C15_LexicalHitWins ==
    HybridReturned
    => \A i \in 1..Len(Val(hybOut)) :
          LET o == Val(hybOut)[i]
              kp == PositionsOf(knnHits, o.id)
              bp == PositionsOf(bm25Hits, o.id)
          IN /\ kp \cup bp # {}
             /\ IF bp # {}
                THEN \E p \in bp : C15_TakenFrom(o, bm25Hits, p)
                ELSE \E p \in kp : C15_TakenFrom(o, knnHits, p)

\* the result is the hit list alone, in its own order, each id scored 1/(60 + rank)
\* and cut to top_k
C16_RankedAlone(out, hits, top_k) ==
    /\ Len(out) = Min(top_k, Len(hits))
    /\ \A i \in 1..Len(out) :
          /\ out[i].id = hits[i]._id
          /\ out[i].score.n * (60 + i) = out[i].score.d
          /\ C15_TakenFrom(out[i], hits, i)

\* an empty branch: the other list is returned, ranked as if it were alone
C16_EmptyBranchDegrades ==
    HybridReturned
    => /\ (knnHits = <<>> /\ bm25Hits # <<>>)
             => C16_RankedAlone(Val(hybOut), bm25Hits, hybArgs.top_k)
       /\ (bm25Hits = <<>> /\ knnHits # <<>>)
             => C16_RankedAlone(Val(hybOut), knnHits, hybArgs.top_k)

\* C16: when exactly one of the two sub-retrievals fails or returns no hits,
\* hybrid retrieval does not fail and returns the surviving list ranked by RRF
\* as if the other list were absent.
C16_OneBranchDownDegrades ==
    /\ C16_EmptyBranchDegrades
    /\ HybridFailed
          => \* a failure may leave the call only when no branch survives
             /\ Len(searchCalls) = 2
             /\ knnHits = <<>>

\* the citations ask ends up with for request r when the retriever returns ret
C17_Citations(r, s, ret) ==
    _truncate_by_char_budget(
        _pack_by_token_budget(
            Curate(ToCitations(IF IsNone(ret) THEN <<>> ELSE Val(ret)), s),
            AvailableCtxTokens(r, s, AnswerMaxInt(r)), s.chars_per_token),
        CharCap(r, s))

\* what ask does with these citations: short-circuit, or generation and guard
C17_Answered(r, s, call, cits, gReply) ==
    IF ShortCircuits(cits, s)
    THEN [retrieverCalls |-> <<call>>, generatorCalls |-> <<>>,
          response |-> Some(RagResponse(s.fallback_answer, cits)),
          failure |-> None]
    ELSE LET answer == IF Val(gReply).kind = "raise"
                       THEN GeneratorFailureAnswer(s, Val(gReply).value)
                       ELSE Strip(IF IsNone(Val(gReply).value) THEN <<>>
                                  ELSE Val(Val(gReply).value))
         IN [retrieverCalls |-> <<call>>,
             generatorCalls |-> <<[prompt |-> build_prompt(r.question, cits, s, r.style),
                                   max_tokens |-> AnswerMaxInt(r)]>>,
             response |-> Some(RagResponse(GuardAnswer(answer, cits, s), cits)),
             failure |-> None]

\* what ask does once the retriever call is made, given the replies of the two
\* ports: a function of the call and of the request fields other than search_mode
C17_Outcome(call, r, s, rReply, gReply) ==
    IF Val(rReply).kind = "raise"
    THEN [retrieverCalls |-> <<call>>, generatorCalls |-> <<>>,
          response |-> None, failure |-> Some(Val(rReply).value)]
    ELSE CHOOSE o \in {C17_Answered(r, s, call, cits, gReply) :
                          cits \in {C17_Citations(r, s, Val(rReply).value)}} : TRUE

C17_Observed ==
    [retrieverCalls |-> retrieverCalls, generatorCalls |-> generatorCalls,
     response |-> response, failure |-> failure]

C17_WithMode(r, m) == [r EXCEPT !.search_mode = m]

\* C17: with a retriever that has no hybrid search, what ask does for a request
\* (its retriever calls, its generator calls, the response or the exception) is
\* what it does for the same request with search_mode "knn" and with search_mode
\* absent, whatever the retriever and the generator reply: the run is determined
\* by the retriever call and the request fields other than search_mode, and the
\* retriever call is the one made for "knn" and for an absent mode.
C17_HybridWithoutSupportIsKnn ==
    (~hasHybrid /\ pc \in {"done", "failed"})
    => /\ C17_Observed
            = C17_Outcome(RetrieverCall(req, hasHybrid), C17_WithMode(req, None),
                          settings, retrieverReply, generatorReply)
       /\ RetrieverCall(req, hasHybrid)
            = RetrieverCall(C17_WithMode(req, Some(ModeKnn)), hasHybrid)
       /\ RetrieverCall(req, hasHybrid)
            = RetrieverCall(C17_WithMode(req, None), hasHybrid)
       /\ retrieverCalls[1].method = "search_knn_slim"

C17_Witness ==
    /\ ~hasHybrid
    /\ pc = "done"
    /\ SearchMode(req) = ModeHybrid
    /\ retrieverCalls
          = <<[method |-> "search_knn_slim", query |-> req.question, top_k |-> req.top_k]>>
    /\ GenerationReturned
    /\ Val(response).citations # <<>>

BuiltPrompt == fnName = "build_prompt"

\* the base template's prompt for the arguments of the call
C18_BasePrompt ==
    build_prompt_base(fnArgs.question, fnArgs.citations, settings)

\* C18 as stated: an absent style, or a style string that is not one of the
\* enumerated style tags, gives exactly the prompt of the base template.
C18_UnknownStyleIsBase ==
    (BuiltPrompt /\ (IsNone(fnArgs.style) \/ Val(fnArgs.style) \notin StyleTags))
    => fnOut = C18_BasePrompt

\* C18, amended: an absent or empty style, or a style string whose lower-cased
\* form is not one of the enumerated style tags, gives exactly the prompt of the
\* base template (tags are matched without regard to letter case, and without
\* trimming).
C18_UnknownStyleUpToCaseIsBase ==
    (BuiltPrompt /\ (IsNone(fnArgs.style) \/ Lower(Val(fnArgs.style)) \notin StyleTags))
    => fnOut = C18_BasePrompt

C18_Witness ==
    /\ BuiltPrompt
    /\ fnArgs.style = Some(<<"h","a","i","k","u">>)
    /\ Len(fnArgs.citations) = 2
    /\ fnOut.template = "base"
    /\ fnOut.system = settings.system_prompt_base
    /\ fnOut = C18_BasePrompt

\* the template function that belongs to a style tag
C19_OwnTemplate(tag, question, citations, s) ==
    CASE tag = StyleBase -> build_prompt_base(question, citations, s)
      [] tag = StyleAuditBullets -> build_prompt_audit_bullets(question, citations, s)
      [] tag = StyleConcise -> build_prompt_concise(question, citations, s)
      [] tag = StyleQa -> build_prompt_qa(question, citations, s)
      [] tag = StyleVerdict -> build_prompt_verdict(question, citations, s)
      [] tag = StyleCompare -> build_prompt_compare(question, citations, s)
      [] tag = StyleTable -> build_prompt_table(question, citations, s)
      [] tag = StyleJson -> build_prompt_json(question, citations, s)
      [] tag = StyleProcedure -> build_prompt_procedure(question, citations, s)
      [] tag = StyleExecSummary -> build_prompt_exec_summary(question, citations, s)
      [] tag = StyleMitreCard -> build_prompt_mitre_card(question, citations, s)

\* C19: every style tag of the enumeration is dispatched to its own template, and
\* every tag other than base yields a prompt with the strict citation-anchored
\* preamble and that style's scaffold, not the base template.
C19_EachTagOwnTemplate ==
    (BuiltPrompt /\ ~IsNone(fnArgs.style) /\ Val(fnArgs.style) \in StyleTags)
    => /\ fnOut = C19_OwnTemplate(Val(fnArgs.style), fnArgs.question,
                                  fnArgs.citations, settings)
       /\ Val(fnArgs.style) # StyleBase
             => /\ fnOut.system = settings.system_prompt_strict
                /\ fnOut.template # "base"

\* the tags whose branch exists do reach their own template
C19_DispatchedTagsOwnTemplate ==
    (BuiltPrompt /\ ~IsNone(fnArgs.style)
       /\ Val(fnArgs.style) \in StyleTags \ {StyleVerdict, StyleProcedure, StyleExecSummary})
    => fnOut = C19_OwnTemplate(Val(fnArgs.style), fnArgs.question,
                               fnArgs.citations, settings)

\* the source the claim asks for: the URL, else the source name, else the
\* citation id, else none
C20_BestSource(c) ==
    IF Truthy(MetaGet(c.meta, "url")) THEN MetaGet(c.meta, "url")
    ELSE IF Truthy(MetaGet(c.meta, "source")) THEN MetaGet(c.meta, "source")
    ELSE IF Truthy(c.id) THEN c.id
    ELSE None

\* C20: in every template that includes citations, the i-th citation (1-based)
\* is rendered as "[i] <text>" followed by a source line holding its URL, else
\* its source name, else the citation id; the line is left out only when none of
\* the three exists.
C20_NumberedWithBestSource ==
    BuiltPrompt
    => /\ Len(fnOut.ctx) = Len(fnArgs.citations)
       /\ \A i \in 1..Len(fnOut.ctx) :
             /\ fnOut.ctx[i].n = i
             /\ fnOut.ctx[i].text = fnArgs.citations[i].text
             /\ fnOut.ctx[i].fonte = C20_BestSource(fnArgs.citations[i])

\* what holds in every template: the 1-based numbering and the texts
C20_Numbered ==
    BuiltPrompt
    => /\ Len(fnOut.ctx) = Len(fnArgs.citations)
       /\ \A i \in 1..Len(fnOut.ctx) :
             /\ fnOut.ctx[i].n = i
             /\ fnOut.ctx[i].text = fnArgs.citations[i].text

\* what the strict templates do: a source line only for a citation with a
\* non-empty meta; the base template renders none
C20_SourceLineAsCoded ==
    BuiltPrompt
    => \A i \in 1..Len(fnOut.ctx) :
          LET c == fnArgs.citations[i]
          IN fnOut.ctx[i].fonte
                = IF fnOut.template = "base" \/ c.meta = EmptyDict THEN None
                  ELSE IF Truthy(MetaGet(c.meta, "url")) THEN MetaGet(c.meta, "url")
                  ELSE IF Truthy(MetaGet(c.meta, "source")) THEN MetaGet(c.meta, "source")
                  ELSE IF Truthy(MetaGet(c.meta, "id")) THEN MetaGet(c.meta, "id")
                  ELSE IF Truthy(c.id) THEN c.id
                  ELSE None

\* the answer as it enters the reminder test: the stripped generator text (the
\* fallback answer when that is empty) or the generator-failure answer
C21_Answer ==
    IF GenerationFailed
    THEN settings.fallback_answer \o ErrOpen \o Val(generatorReply).value \o ErrClose
    ELSE LET out == Val(generatorReply).value
             a == Strip(IF IsNone(out) THEN <<>> ELSE Val(out))
         IN IF a = <<>> THEN settings.fallback_answer ELSE a

AllDigits(s) == s # <<>> /\ \A k \in 1..Len(s) : IsDigit(s[k])

\* s holds "[", digits, "]" with nothing else between the brackets
C21_HasStrictMarker(s) ==
    \E i, j \in 1..Len(s) :
        i < j /\ s[i] = "[" /\ s[j] = "]" /\ AllDigits(SubSeq(s, i + 1, j - 1))

\* s holds "[", digits, "]" where whitespace may surround the digits
C21_HasMarker(s) ==
    \E i, j \in 1..Len(s) :
        i < j /\ s[i] = "[" /\ s[j] = "]" /\ AllDigits(Strip(SubSeq(s, i + 1, j - 1)))

\* the reminder rule of a finished request, for a given reading of "marker"
C21_Rule(hasMarker) ==
    /\ Len(generatorCalls) <= 1
    /\ pc = "done"
         => IF IsNone(generatorReply)
            THEN \* short-circuit response: the fallback answer, no reminder
                 /\ Val(response).answer = settings.fallback_answer
                 /\ generatorCalls = <<>>
            ELSE LET due == /\ settings.ensure_citations_in_output
                            /\ budgeted # <<>>
                            /\ ~hasMarker
                 IN /\ ~Contains(C21_Answer, Reminder)
                    /\ Val(response).answer
                          = IF due THEN C21_Answer \o Reminder ELSE C21_Answer

\* C21 as stated: in the guarding step the one-line reminder is appended to the
\* answer if and only if ensure_citations_in_output is on, the budgeted citation
\* list is non-empty and the answer holds no "[digits]" marker; it is appended at
\* most once, causes no second generator call and is never added to a
\* short-circuit response.
C21_ReminderIffNoDigitsMarker ==
    C21_Rule(pc = "done" /\ ~IsNone(generatorReply) /\ C21_HasStrictMarker(C21_Answer))

\* C21, amended: the same with the marker being "[", optional whitespace, digits,
\* optional whitespace, "]".
C21_ReminderIffNoMarker ==
    C21_Rule(pc = "done" /\ ~IsNone(generatorReply) /\ C21_HasMarker(C21_Answer))

C21_Witness ==
    /\ pc = "done"
    /\ GenerationReturned
    /\ settings.ensure_citations_in_output
    /\ budgeted # <<>>
    /\ Val(generatorReply).value = Some(<<" ","o","k","\n">>)
    /\ Val(response).answer = <<"o","k">> \o Reminder
    /\ Len(generatorCalls) = 1

\* the generator returned, and its text is empty once trimmed (None counts as "")
C22_EmptyGeneration ==
    /\ pc = "done"
    /\ GenerationReturned
    /\ LET out == Val(generatorReply).value
       IN IsNone(out) \/ \A k \in 1..Len(Val(out)) : IsWs(Val(out)[k])

\* C22 as stated: when the generator's text is empty after trimming, the answer
\* of the response is fallback_answer; and, fallback_answer being non-empty, the
\* answer of every response is non-empty.
C22_EmptyGenerationIsFallback ==
    /\ C22_EmptyGeneration => Val(response).answer = settings.fallback_answer
    /\ (pc = "done" /\ settings.fallback_answer # <<>>) => Val(response).answer # <<>>

\* C22, amended: when the generator's text is empty after trimming, the answer
\* is fallback_answer, followed by the citation reminder exactly when
\* ensure_citations_in_output is on, citations are present and fallback_answer
\* holds no marker; and, fallback_answer being non-empty, the answer of every
\* response is non-empty.
C22_EmptyGenerationIsFallbackThenReminder ==
    /\ C22_EmptyGeneration
         => Val(response).answer
               = IF /\ settings.ensure_citations_in_output
                    /\ Val(response).citations # <<>>
                    /\ ~C21_HasMarker(settings.fallback_answer)
                 THEN settings.fallback_answer \o Reminder
                 ELSE settings.fallback_answer
    /\ (pc = "done" /\ settings.fallback_answer # <<>>) => Val(response).answer # <<>>

C22_Witness ==
    /\ C22_EmptyGeneration
    /\ Val(generatorReply).value = Some(<<" ","\n">>)
    /\ ~settings.ensure_citations_in_output
    /\ Val(response).citations # <<>>
    /\ settings.fallback_answer # <<>>
    /\ Val(response).answer = settings.fallback_answer

-----------------------------------------------------------------------------
(* The generator call of ask: timeout, cancellation, retry *)

\* a generator call made by ask is suspended on a generator process
C23_AskInFlight == genPc \in {"run1", "run2"} /\ genArgs.caller = "ask"

\* C23: the pipeline invokes the generator under a timeout, so a request
\* whose generator call is in flight eventually leaves ask, even when the
\* generator process never exits.
C23_AskEventuallyDone == C23_AskInFlight ~> (askOut # None)

\* the call ended by reporting a timeout
C24_TimedOut ==
    /\ genOut # None
    /\ Val(genOut) = [kind |-> "raise", value |-> Exc("RuntimeError", ErrTimeout)]

\* what ask makes of the outcome of the call
C24_AskResult == AskAfterGenerator(settings, LlamaCitations, Val(genOut))

\* C24: when a generator call reports a timeout, the process that timed
\* out has been killed and no process of the call is running, and ask turns
\* the reported timeout into a response whose answer is the fallback answer
\* (followed by the error detail), as for any generator failure.
C24_TimeoutKillsThenFallback ==
    C24_TimedOut =>
        /\ procs[Len(procs)].state = "killed"
        /\ \A i \in 1..Len(procs) : procs[i].state # "running"
        /\ Val(C24_AskResult).kind = "return"
        /\ StartsWith(Val(C24_AskResult).value.answer, settings.fallback_answer)
        /\ Val(C24_AskResult).value.citations = LlamaCitations
        /\ Val(C24_AskResult) =
               Val(AskAfterGenerator(settings, LlamaCitations,
                       [kind |-> "raise", value |-> Exc("OSError", ErrTimeout)]))
        /\ genArgs.caller = "ask" => askOut = C24_AskResult

\* the second attempt of a call timed out after the first had failed
C24_Witness ==
    /\ C24_TimedOut
    /\ Len(procs) = 2
    /\ procs[1].state = "exited"
    /\ procs[2].state = "killed"

\* the request was cancelled while its generator call was in flight
C25_Cancelled ==
    /\ genOut # None
    /\ genArgs.caller = "ask"
    /\ Val(genOut) = [kind |-> "raise", value |-> Exc("CancelledError", <<>>)]

\* C25: after a request is cancelled while its generator call is in flight,
\* no generator process started by that request is running.
C25_CancelStopsProcess ==
    C25_Cancelled => \A i \in 1..Len(procs) : procs[i].state # "running"

\* the cancellation does reach the call and leaves ask as CancelledError
C25_CancelPropagates ==
    C25_Cancelled => askOut = Raised(Exc("CancelledError", <<>>))

\* the prompt-passing convention of a process: "-p" or positional
C27_UsesFlag(p) == p.cmd[1] = "-p"

\* C27: one generate_response_async call starts at most two processes; the
\* first passes the prompt by the convention preferred for the binary; a
\* second exists only when the first has exited with a non-zero code, and
\* it uses the other convention; a first attempt that timed out is the only
\* process of its call; once the call has ended no process is started.
C27_AtMostOneRetry ==
    /\ Len(procs) <= 2
    /\ genPc = "run1" => Len(procs) = 1
    /\ Len(procs) >= 1 => (C27_UsesFlag(procs[1]) <=> ~genArgs.prefer_positional)
    /\ Len(procs) = 2 =>
           /\ procs[1].state = "exited"
           /\ procs[1].returncode \notin {None, Some(0)}
           /\ C27_UsesFlag(procs[2]) <=> ~C27_UsesFlag(procs[1])
    /\ (Len(procs) >= 1 /\ procs[1].state = "killed") => Len(procs) = 1
    /\ genPc = "done" => ~ENABLED (NextLlama /\ procs' # procs)

\* the second attempt failed as well and the call ended with two processes
C27_Witness ==
    /\ genPc = "done"
    /\ Len(procs) = 2
    /\ procs[2].state = "exited"
    /\ procs[2].returncode = Some(1)
    /\ Val(genOut) = [kind |-> "raise", value |-> Exc("RuntimeError", ErrExit)]

-----------------------------------------------------------------------------
(* Simultaneous requests *)

\* the response or exception of ask for the request, the retriever reply
\* and the generator reply of one execution, computed on its own
C26_Alone(t) ==
    C17_Outcome(RetrieverCall(t.req, hasHybrid), t.req, settings,
                t.retrieverReply, t.generatorReply)

\* C26: whatever the interleaving of simultaneous ask executions, every
\* execution that has ended returned the response (or raised the exception)
\* that ask gives for its own request, retriever reply and generator reply.
C26_EachAsIfAlone ==
    \A i \in 1..NTasks :
        tasks[i].pc \in {"done", "failed"} =>
            /\ tasks[i].response = C26_Alone(tasks[i]).response
            /\ tasks[i].failure = C26_Alone(tasks[i]).failure

\* two executions overlapped, each got a generator reply, and they
\* returned different citations
C26_Witness ==
    /\ tasks[1].pc = "done" /\ tasks[2].pc = "done"
    /\ tasks[2].overlaps = {1}
    /\ tasks[1].generatorReply # None /\ tasks[2].generatorReply # None
    /\ Val(tasks[1].response).citations # Val(tasks[2].response).citations
    /\ Val(tasks[1].response).answer # Val(tasks[2].response).answer

-----------------------------------------------------------------------------
(* The cut of _truncate_by_char_budget and the prefix of _pack_by_token_budget *)

C28_Called ==
    /\ fnName = "_truncate_by_char_budget"
    /\ ~IsNone(fnArgs.max_chars)
    /\ Val(fnArgs.max_chars) > 0

\* the citations the loop looks at: those with a non-empty text
C28_Src == SelectSeq(fnArgs.citations, C9_NonEmptyText)

\* the cut point: the first citation whose text makes the running total
\* exceed max_chars (one past the end when there is none)
C28_Cut ==
    LET src == C28_Src
    IN CHOOSE k \in 1..(Len(src) + 1) :
          /\ \A j \in 1..(k - 1) : C9_TotalLen(SubSeq(src, 1, j)) <= Val(fnArgs.max_chars)
          /\ k <= Len(src) => C9_TotalLen(SubSeq(src, 1, k)) > Val(fnArgs.max_chars)

C28_Remaining == Val(fnArgs.max_chars) - C9_TotalLen(SubSeq(C28_Src, 1, C28_Cut - 1))

\* the list the claim describes; stripped tells whether trailing whitespace
\* is removed from the kept characters before the ellipsis is added
C28_Expected(stripped) ==
    LET src == C28_Src
        k == C28_Cut
        first == SubSeq(src[k].text, 1, C28_Remaining - 3)
        clipped == (IF stripped THEN RStrip(first) ELSE first) \o <<".", ".", ".">>
    IN SubSeq(src, 1, k - 1)
         \o (IF k <= Len(src) /\ C28_Remaining > 50
             THEN <<[src[k] EXCEPT !.text = clipped]>>
             ELSE <<>>)

\* C28 (as stated): for a positive maxChars the result is the citations
\* before the cut point, unchanged and in order, followed, only when the
\* remaining room is greater than 50, by a copy of the citation at the cut
\* point whose text is its first remaining-3 characters plus "...", and by
\* nothing else.
C28_CutClipsFirstChars == C28_Called => fnOut = C28_Expected(FALSE)

\* C28 (amended): the same, the text of the clipped copy being the first
\* remaining-3 characters with trailing whitespace removed, plus "...";
\* citations with an empty text are passed over.
C28_CutClipsStrippedChars == C28_Called => fnOut = C28_Expected(TRUE)

\* a call that kept a citation whole and clipped the next one just after a
\* space, while a later citation was left out
C28_Witness ==
    /\ C28_Called
    /\ Len(C28_Src) = 3
    /\ Len(fnOut) = 2
    /\ fnOut[1] = C28_Src[1]
    /\ fnOut[2].text # C28_Src[2].text
    /\ Len(fnOut[2].text) < C28_Remaining

\* the budget used by the first j citations of the input
C29_Used(j) == C8_Used(SubSeq(fnArgs.citations, 1, j), fnArgs.cpt)

\* C29: _pack_by_token_budget returns a prefix of its input; with a
\* positive budget every citation after the first was added while the used
\* budget was below the budget and fitted in it, and the first citation
\* left out either did not fit or came after the budget was reached; with a
\* budget <= 0 the prefix has length 1 for a non-empty input and 0 for an
\* empty one.
C29_PackIsPrefix ==
    fnName = "_pack_by_token_budget" =>
        LET inp == fnArgs.citations
            n == Len(fnOut)
        IN /\ n <= Len(inp)
           /\ fnOut = SubSeq(inp, 1, n)
           /\ fnArgs.max_tokens <= 0 => n = (IF inp = <<>> THEN 0 ELSE 1)
           /\ fnArgs.max_tokens > 0 =>
                 /\ inp # <<>> => n >= 1
                 /\ \A j \in 1..(n - 1) :
                       /\ C29_Used(j) < fnArgs.max_tokens
                       /\ C29_Used(j + 1) <= fnArgs.max_tokens
                 /\ n < Len(inp) =>
                       \/ C29_Used(n) >= fnArgs.max_tokens
                       \/ C29_Used(n + 1) > fnArgs.max_tokens

\* the second citation did not fit and the third, which would have fitted
\* after the first, was not taken in its place
C29_Witness ==
    /\ fnName = "_pack_by_token_budget"
    /\ fnArgs.max_tokens > 0
    /\ Len(fnArgs.citations) = 3
    /\ fnOut = SubSeq(fnArgs.citations, 1, 1)
    /\ C29_Used(1) < fnArgs.max_tokens
    /\ C29_Used(2) > fnArgs.max_tokens
    /\ C29_Used(1) + C8_Need(fnArgs.citations[3], fnArgs.cpt) <= fnArgs.max_tokens

\* with a budget <= 0 a non-empty input gives its first citation alone
C29_WitnessNoBudget ==
    /\ fnName = "_pack_by_token_budget"
    /\ fnArgs.max_tokens <= 0
    /\ Len(fnArgs.citations) = 3
    /\ fnOut = SubSeq(fnArgs.citations, 1, 1)

-----------------------------------------------------------------------------
(* Index creation *)

\* the index is created by at most one of the create requests
C30_CreatedAtMostOnce ==
    Cardinality({k \in 1..Len(createRequests) : ~createRequests[k].existed}) <= 1

\* a call that found the index at its exists check sends no create request
C30_NoCreateAfterSeeingIndex ==
    \A i \in 1..NServices :
        (ensure[i].pc = "done" /\ ensure[i].existedAtCall) =>
            Len(SelectSeq(createRequests, LAMBDA r : r.service = i)) < ensure[i].calls

\* C30: index creation is idempotent under interleaved ensure_index calls:
\* the index is created at most once, a call that finds the index sends no
\* create request, and no call fails because the index already exists.
C30_EnsureIndexIdempotent ==
    /\ C30_CreatedAtMostOnce
    /\ C30_NoCreateAfterSeeingIndex
    /\ \A i \in 1..NServices : ensure[i].failure # Some(ErrAlreadyExists)

====
